---- MODULE Spec2Model ----
(***************************************************************************)
(* Model of the KNX2 integration: the knx2_event translation of incoming   *)
(* telegrams (KNX2Module.telegram_received_cb), the registration of event  *)
(* filters (KNX2Module.register_event_callback), and the services          *)
(* event_register and send (services.py).                                  *)
(*                                                                         *)
(* A delivery changes no registry and a service call fires no event, so    *)
(* the parts are checked in specifications of their own: SpecRegistry (the *)
(* registry under event_register calls), SpecTranslate (one telegram       *)
(* translated in every registry the calls build), SpecOrder (sequences of  *)
(* telegrams) and SpecSend (one send call).  SpecRead is one read call,    *)
(* SpecWebsocket the websocket commands (websocket.py), SpecSubscribe the  *)
(* live telegram feed, SpecLifecycle setup, unload and stop of the module  *)
(* with the operations called at every point of it, and SpecConnection the *)
(* connection state callback with the entities' commands.  SpecRestore is  *)
(* one entity added, restored, sent telegrams and removed (entity.py and   *)
(* the platforms), SpecStore the config store under create, update,        *)
(* delete and get with the platform controller, SpecHistory the recent     *)
(* telegrams of Telegrams, and SpecStart setup, unload and stop alone,     *)
(* with start() taken one await at a time.  SpecExposure is the service    *)
(* exposure_register with unload and stop, SpecFan one fan under speed     *)
(* telegrams and commands (fan.py), and SpecDevice the removal of a device *)
(* (async_remove_config_entry_device).                                     *)
(*                                                                         *)
(* Values of mixed Python types are modelled as records [type, v] where v  *)
(* is a sequence of integers, so that every value can be compared with     *)
(* every other one; None is [type |-> "None", v |-> <<>>].  Transcoders    *)
(* (DPTBase subclasses) are named by their class name; the absent          *)
(* transcoder (Python None) is the string "None".                          *)
(***************************************************************************)
EXTENDS Integers, Sequences, FiniteSets, TLC

VARIABLES
    address_filters,           \* knx2_event_callback.address_filters (list)
    address_filter_transcoder, \* KNX2Module._address_filter_transcoder (insertion-ordered dict)
    group_addresses,           \* knx2_event_callback.group_addresses (list)
    group_address_transcoder,  \* KNX2Module.group_address_transcoder (dict)
    events,                    \* knx2_event events fired on hass.bus, in firing order
    delivered,                 \* telegrams handed to telegram_received_cb, in delivery order
    attempts,                  \* per delivered telegram: the transcoders whose from_knx was called
    raised,                    \* per delivered telegram: whether the callback raised
    last_call,                 \* the most recent service call and how it ended
    telegrams,                 \* xknx.telegrams, the outbound queue
    hass_data,                 \* the keys of hass.data this integration sets
    pc,                        \* where async_setup_entry / async_unload_entry / stop stand
    trace,                     \* the steps start() and stop() of the module have completed
    connected,                 \* KNX2Module.connected
    connection_log,            \* the states handed to connection_state_changed_cb, in order
    devices,                   \* xknx.devices, the devices telegrams are dispatched to
    refreshed,                 \* per device of xknx.devices: calls of device.after_update()
    exposures,                 \* KNX2Module.exposures (list, from YAML)
    service_exposures,         \* KNX2Module.service_exposures (dict by address)
    config_store,              \* KNX2Module.config_store: entity id -> configuration
    ws_requests,               \* the websocket messages handled, in order
    ws_replies,                \* the messages sent on the websocket connection, in order
    subscriptions,             \* connection.subscriptions: message id -> connected to the signal
    dispatched,                \* the telegrams sent on SIGNAL_KNX2_TELEGRAM, in order
    commands,                  \* the user commands the entities have handled, in order
    entities,                  \* the entity objects of the platforms, one for a removed unique id
    history,                   \* Telegrams.recent_telegrams with its log_size
    entry_state,               \* how async_setup_entry ended and what it has set up
    platform_calls             \* the calls the last config store command made on its platform

\* The registry of the knx2_event translation.
registry_vars == <<address_filters, address_filter_transcoder, group_addresses,
                   group_address_transcoder>>

\* The log of the knx2_event translation.
event_vars == <<events, delivered, attempts, raised>>

\* The life cycle of the module and its connection to the bus.
module_vars == <<hass_data, pc, trace, connected, connection_log, devices, refreshed>>

\* The exposures and the store of the UI entities.
store_vars == <<exposures, service_exposures, config_store>>

\* The websocket connection and the entities' commands.
ws_vars == <<ws_requests, ws_replies, subscriptions, dispatched, commands>>

\* The entities of the platforms, the telegram history and the config entry.
entity_vars == <<entities, history, entry_state, platform_calls>>

vars == <<address_filters, address_filter_transcoder, group_addresses,
          group_address_transcoder, events, delivered, attempts, raised,
          last_call, telegrams, hass_data, pc, trace, connected, connection_log,
          devices, refreshed, exposures, service_exposures, config_store,
          ws_requests, ws_replies, subscriptions, dispatched, commands,
          entities, history, entry_state, platform_calls>>

\* ------------------------------------------------------------------ bounds

\* Number of telegrams delivered to telegram_received_cb in one run.
MaxTelegrams == 2

\* ------------------------------------------------------------------ values

None == [type |-> "None", v |-> <<>>]

IntValue(n) == [type |-> "int", v |-> <<n>>]

TupleValue(s) == [type |-> "tuple", v |-> s]

\* ------------------------------------------------------------------ addresses

\* GroupAddress in 3-level format, held as its raw 16 bit value.
GA(main, middle, sub) == [kind |-> "GroupAddress", raw |-> main * 2048 + middle * 256 + sub]

InternalGA(n) == [kind |-> "InternalGroupAddress", raw |-> n]

IndividualAddress(n) == [kind |-> "IndividualAddress", raw |-> n]

Main(a) == a.raw \div 2048

Middle(a) == (a.raw \div 256) % 8

Sub(a) == a.raw % 256

\* The addresses service calls name (parse_device_group_address of the call data).
ServiceAddresses == {GA(1, 2, 5), GA(1, 2, 6)}

\* The destinations of the telegrams the wire layer delivers.
Destinations == {GA(1, 2, 5), InternalGA(1), IndividualAddress(4353)}

\* ------------------------------------------------------------------ filters

AnyMain == 0 .. 31

AnyMiddle == 0 .. 7

AnySub == 0 .. 255

\* AddressFilter(pattern): one set of admitted values per level.  An
\* AddressFilter object is hashed by identity, so two filters built from the
\* same pattern are two keys of _address_filter_transcoder; id is that identity.
AddressFilter(id, main, middle, sub) == [id |-> id, main |-> main, middle |-> middle, sub |-> sub]

\* AddressFilter.match: a level filter matches group addresses only.
FilterMatch(f, a) ==
    /\ a.kind = "GroupAddress"
    /\ Main(a) \in f.main
    /\ Middle(a) \in f.middle
    /\ Sub(a) \in f.sub

\* ------------------------------------------------------------------ transcoders

\* The value_type names the schemas accept (dpt_base_type_validator).
KnownTypes == {"percentU8", "date"}

\* DPTBase.parse_transcoder: the transcoder class of a value_type name, or None.
parse_transcoder(dpt) ==
    IF dpt = "percentU8" THEN "DPTScaling"
    ELSE IF dpt = "date" THEN "DPTDate"
    ELSE "None"

\* A DPTArray / DPTBinary payload value; value is the tuple of bytes, or <<n>>
\* for the integer n of a DPTBinary.
DPTArray(bytes) == [kind |-> "DPTArray", value |-> bytes]

DPTBinary(n) == [kind |-> "DPTBinary", value |-> <<n>>]

NoPayloadValue == [kind |-> "None", value |-> <<>>]

\* payload.value.value: an int for DPTBinary, a tuple of ints for DPTArray.
RawValue(pv) ==
    IF pv.kind = "DPTBinary" THEN IntValue(pv.value[1]) ELSE TupleValue(pv.value)

\* Outcome of transcoder.from_knx: a value, or the exception it raised.
Decoded(value) == [error |-> "None", value |-> value]

DecodeError(name) == [error |-> name, value |-> None]

IsLeap(year) == (year % 4 = 0 /\ year % 100 # 0) \/ year % 400 = 0

DaysInMonth(year, month) ==
    IF month = 2 THEN (IF IsLeap(year) THEN 29 ELSE 28)
    ELSE IF month \in {4, 6, 9, 11} THEN 30 ELSE 31

\* DPTScaling.from_knx (value_type "percentU8"): one byte, scaled to 0..100.
DPTScaling_from_knx(pv) ==
    IF pv.kind # "DPTArray" \/ Len(pv.value) # 1
    THEN DecodeError("CouldNotParseTelegram")
    ELSE Decoded(IntValue((pv.value[1] * 200 + 255) \div 510))

\* DPTDate.from_knx (value_type "date"): three bytes day, month, year.
DPTDate_from_knx(pv) ==
    IF pv.kind # "DPTArray" \/ Len(pv.value) # 3
    THEN DecodeError("CouldNotParseTelegram")
    ELSE LET day == pv.value[1] % 32
             month == pv.value[2] % 16
             yy == pv.value[3] % 128
             year == IF yy >= 90 THEN 1900 + yy ELSE 2000 + yy
         IN  IF month \in 1 .. 12 /\ day \in 1 .. DaysInMonth(year, month)
             THEN Decoded([type |-> "date", v |-> <<year, month, day>>])
             ELSE DecodeError("ConversionError")

from_knx(transcoder, pv) ==
    IF transcoder = "DPTScaling" THEN DPTScaling_from_knx(pv) ELSE DPTDate_from_knx(pv)

\* ------------------------------------------------------------------ telegrams

GroupValueWrite(pv) == [apci |-> "GroupValueWrite", value |-> pv]

GroupValueResponse(pv) == [apci |-> "GroupValueResponse", value |-> pv]

\* A GroupValueRead carries no value.
GroupValueRead == [apci |-> "GroupValueRead", value |-> NoPayloadValue]

Telegram(destination, payload, source, direction) ==
    [destination_address |-> destination, payload |-> payload,
     source_address |-> source, direction |-> direction]

\* The payload values of the delivered telegrams: one byte 0x80, the three
\* bytes of a date whose day is 0, and no value.
PayloadValues == {DPTArray(<<128>>), DPTArray(<<0, 1, 24>>), NoPayloadValue}

Payloads ==
    {GroupValueRead}
        \cup {GroupValueWrite(pv) : pv \in PayloadValues}
        \cup {GroupValueResponse(pv) : pv \in PayloadValues \ {NoPayloadValue}}

\* The individual address of the device the telegrams come from.
BusDevice == IndividualAddress(4354)

IncomingTelegrams ==
    {Telegram(d, p, BusDevice, "Incoming") : d \in Destinations, p \in Payloads}

\* ------------------------------------------------------------------ telegram_received_cb

\* Mutant: the destination is not looked at.
Eligible_AnyDestination(telegram) ==
    /\ telegram.payload.apci \in {"GroupValueWrite", "GroupValueResponse"}
    /\ telegram.payload.value # [kind |-> "None", value |-> <<>>]

\* The telegram carries serializable data: a write or response with a value,
\* sent to a group address or an internal group address.
Eligible(telegram) ==
    /\ telegram.payload.apci \in {"GroupValueWrite", "GroupValueResponse"}
    /\ telegram.payload.value # NoPayloadValue
    /\ telegram.destination_address.kind \in {"GroupAddress", "InternalGroupAddress"}

\* Mutant: the transcoder of the first filter, whether it matches or not.
FirstMatch_Unmatched(aft, dest, i) == IF i > Len(aft) THEN "None" ELSE aft[i].transcoder

\* Mutant: the scan does not stop at the first match, the last match wins.
RECURSIVE FirstMatch_LastWins(_, _, _)
FirstMatch_LastWins(aft, dest, i) ==
    IF i > Len(aft) THEN "None"
    ELSE LET later == FirstMatch_LastWins(aft, dest, i + 1)
         IN  IF later # "None" THEN later
             ELSE IF FilterMatch(aft[i].filter, dest) THEN aft[i].transcoder
             ELSE "None"

\* next((_transcoder for _filter, _transcoder in aft.items() if _filter.match(dest)), None)
RECURSIVE FirstMatch(_, _, _)
FirstMatch(aft, dest, i) ==
    IF i > Len(aft) THEN "None"
    ELSE IF FilterMatch(aft[i].filter, dest) THEN aft[i].transcoder
    ELSE FirstMatch(aft, dest, i + 1)

\* self.group_address_transcoder.get(dest)
ExactTranscoder(gat, dest) == IF dest \in DOMAIN gat THEN gat[dest] ELSE "None"

\* Mutant: the filters are scanned before the exact binding is looked up.
SelectTranscoder_FiltersFirst(gat, aft, dest) ==
    IF FirstMatch(aft, dest, 1) # "None" THEN FirstMatch(aft, dest, 1)
    ELSE ExactTranscoder(gat, dest)

\* group_address_transcoder.get(dest) or next(..., None)
SelectTranscoder(gat, aft, dest) ==
    IF ExactTranscoder(gat, dest) # "None" THEN ExactTranscoder(gat, dest)
    ELSE FirstMatch(aft, dest, 1)

\* Mutant: only ConversionError is caught.
CaughtErrors_ConversionOnly == {"ConversionError"}

\* except (ConversionError, CouldNotParseTelegram)
CaughtErrors == {"ConversionError", "CouldNotParseTelegram"}

KnxEvent(telegram, data, value) ==
    [data |-> data,
     destination |-> telegram.destination_address,
     direction |-> telegram.direction,
     value |-> value,
     source |-> telegram.source_address,
     telegramtype |-> telegram.payload.apci]

\* Mutant: after a failed decode the next matching filter's transcoder is tried.
telegram_received_cb_Retry(telegram, gat, aft) ==
    IF ~Eligible(telegram)
    THEN [fired |-> <<KnxEvent(telegram, None, None)>>, tried |-> <<>>, raised |-> FALSE]
    ELSE LET data == RawValue(telegram.payload.value)
             transcoder == SelectTranscoder(gat, aft, telegram.destination_address)
             others == {k \in 1 .. Len(aft) :
                           /\ FilterMatch(aft[k].filter, telegram.destination_address)
                           /\ aft[k].transcoder # transcoder}
         IN  IF transcoder = "None"
             THEN [fired |-> <<KnxEvent(telegram, data, None)>>, tried |-> <<>>,
                   raised |-> FALSE]
             ELSE LET res == from_knx(transcoder, telegram.payload.value)
                  IN  IF res.error = "None" \/ others = {}
                      THEN [fired |-> <<KnxEvent(telegram, data, res.value)>>,
                            tried |-> <<transcoder>>, raised |-> FALSE]
                      ELSE LET other == aft[CHOOSE k \in others :
                                                \A m \in others : k <= m].transcoder
                           IN  [fired |-> <<KnxEvent(telegram, data,
                                    from_knx(other, telegram.payload.value).value)>>,
                                tried |-> <<transcoder, other>>, raised |-> FALSE]

\* One run of telegram_received_cb: the events it fires, the transcoders whose
\* from_knx it calls, and whether an exception leaves it.
telegram_received_cb(telegram, gat, aft) ==
    IF ~Eligible(telegram)
    THEN [fired |-> <<KnxEvent(telegram, None, None)>>, tried |-> <<>>, raised |-> FALSE]
    ELSE LET data == RawValue(telegram.payload.value)
             transcoder == SelectTranscoder(gat, aft, telegram.destination_address)
         IN  IF transcoder = "None"
             THEN [fired |-> <<KnxEvent(telegram, data, None)>>, tried |-> <<>>,
                   raised |-> FALSE]
             ELSE LET res == from_knx(transcoder, telegram.payload.value)
                  IN  IF res.error = "None" \/ res.error \in CaughtErrors
                      THEN [fired |-> <<KnxEvent(telegram, data, res.value)>>,
                            tried |-> <<transcoder>>, raised |-> FALSE]
                      ELSE [fired |-> <<>>, tried |-> <<transcoder>>, raised |-> TRUE]

\* ------------------------------------------------------------------ register_event_callback

\* Address patterns of the event filters of configuration.yaml.
Pattern(main, middle, sub) == [main |-> main, middle |-> middle, sub |-> sub]

P_1_2_x == Pattern({1}, {2}, AnySub)

P_1_x_x == Pattern({1}, AnyMiddle, AnySub)

P_1_2_5 == Pattern({1}, {2}, {5})

P_1_3_x == Pattern({1}, {3}, AnySub)

FilterSet(address, type) == [address |-> address, type |-> type]

\* config_yaml[CONF_EVENT]: the lists of filter sets the module is started with.
EventConfigs ==
    { <<>>,
      <<FilterSet(<<P_1_3_x>>, "date")>>,
      <<FilterSet(<<P_1_2_5>>, "None"), FilterSet(<<P_1_2_x>>, "percentU8"),
        FilterSet(<<P_1_x_x>>, "date")>>,
      <<FilterSet(<<P_1_x_x, P_1_2_x>>, "date"), FilterSet(<<P_1_2_5>>, "percentU8")>> }

\* list(map(AddressFilter, filter_set[KNX2_ADDRESS])), the k-th filter built
\* getting the identity base + k.
FiltersOf(filter_set, base) ==
    [k \in 1 .. Len(filter_set.address) |->
        AddressFilter(base + k, filter_set.address[k].main,
                      filter_set.address[k].middle, filter_set.address[k].sub)]

\* The loop of register_event_callback over the first n filter sets:
\* address_filters and _address_filter_transcoder after it.
RECURSIVE register_event_callback(_, _)
register_event_callback(config, n) ==
    IF n = 0 THEN [address_filters |-> <<>>, address_filter_transcoder |-> <<>>]
    ELSE LET before == register_event_callback(config, n - 1)
             filters == FiltersOf(config[n], Len(before.address_filters))
             transcoder == IF config[n].type = "None" THEN "None"
                           ELSE parse_transcoder(config[n].type)
         IN  [address_filters |-> before.address_filters \o filters,
              address_filter_transcoder |->
                  IF transcoder = "None" THEN before.address_filter_transcoder
                  ELSE before.address_filter_transcoder
                       \o [k \in 1 .. Len(filters) |->
                              [filter |-> filters[k], transcoder |-> transcoder]]]

\* ------------------------------------------------------------------ service event_register

\* Number of addresses one service call names.
MaxAddresses == 2

\* call.data[KNX2_ADDRESS] after cv.ensure_list and ga_validator, parsed.
AddressLists ==
    UNION {[1 .. n -> ServiceAddresses] : n \in 1 .. MaxAddresses}

\* call.data.get(CONF_TYPE) after dpt_base_type_validator; "None" when absent.
ServiceTypes == KnownTypes \cup {"None"}

Contains(list, x) == \E i \in 1 .. Len(list) : list[i] = x

\* list.remove(x): the list without the first occurrence of x.
ListRemove(list, x) ==
    LET i == CHOOSE k \in 1 .. Len(list) :
                 list[k] = x /\ \A j \in 1 .. k - 1 : list[j] # x
    IN  SubSeq(list, 1, i - 1) \o SubSeq(list, i + 1, Len(list))

\* del d[key]
DictDel(d, key) == [k \in DOMAIN d \ {key} |-> d[k]]

\* d.update({key: value for key in keys})
DictUpdate(d, keys, value) ==
    [k \in DOMAIN d \cup keys |-> IF k \in keys THEN value ELSE d[k]]

Range(list) == {list[i] : i \in 1 .. Len(list)}

\* Mutant: the exact bindings of the removed addresses are kept.
RECURSIVE event_register_remove_KeepsBinding(_, _, _, _)
event_register_remove_KeepsBinding(ga, gat, addresses, n) ==
    IF n = 0 THEN [group_addresses |-> ga, group_address_transcoder |-> gat, warnings |-> 0]
    ELSE LET before == event_register_remove_KeepsBinding(ga, gat, addresses, n - 1)
             found == Contains(before.group_addresses, addresses[n])
         IN  [group_addresses |->
                  IF found THEN ListRemove(before.group_addresses, addresses[n])
                  ELSE before.group_addresses,
              group_address_transcoder |-> before.group_address_transcoder,
              warnings |-> before.warnings + (IF found THEN 0 ELSE 1)]

\* The remove branch for the first n addresses of the call: the
\* subscriptions, the exact bindings and the number of warnings logged.
RECURSIVE event_register_remove(_, _, _, _)
event_register_remove(ga, gat, addresses, n) ==
    IF n = 0 THEN [group_addresses |-> ga, group_address_transcoder |-> gat, warnings |-> 0]
    ELSE LET before == event_register_remove(ga, gat, addresses, n - 1)
             group_address == addresses[n]
             found == Contains(before.group_addresses, group_address)
         IN  [group_addresses |->
                  IF found THEN ListRemove(before.group_addresses, group_address)
                  ELSE before.group_addresses,
              group_address_transcoder |->
                  IF group_address \in DOMAIN before.group_address_transcoder
                  THEN DictDel(before.group_address_transcoder, group_address)
                  ELSE before.group_address_transcoder,
              warnings |-> before.warnings + (IF found THEN 0 ELSE 1)]

\* The append loop of the add branch for the first n addresses of the call.
RECURSIVE event_register_append(_, _, _)
event_register_append(ga, addresses, n) ==
    IF n = 0 THEN ga
    ELSE LET before == event_register_append(ga, addresses, n - 1)
         IN  IF Contains(before, addresses[n]) THEN before
             ELSE Append(before, addresses[n])

\* The add branch: bind the transcoder of the type, if one is given, to every
\* address, then subscribe the addresses not yet subscribed.
event_register_add(ga, gat, addresses, type) ==
    LET transcoder == IF type = "None" THEN "None" ELSE parse_transcoder(type)
    IN  [group_addresses |-> event_register_append(ga, addresses, Len(addresses)),
         group_address_transcoder |->
             IF transcoder = "None" THEN gat
             ELSE DictUpdate(gat, Range(addresses), transcoder),
         warnings |-> 0]

\* Mutant: the handler gives up the event loop after its first mutation, so
\* the registry is seen with the rest of the call not yet applied.
service_event_register_modify_Suspended(ga, gat, call) ==
    IF call.remove
    THEN event_register_remove(ga, gat, call.address, 1)
    ELSE [group_addresses |-> ga,
          group_address_transcoder |->
              event_register_add(ga, gat, call.address, call.type)
                  .group_address_transcoder,
          warnings |-> 0]

\* service_event_register_modify: the registry after the call.
service_event_register_modify(ga, gat, call) ==
    IF call.remove
    THEN event_register_remove(ga, gat, call.address, Len(call.address))
    ELSE event_register_add(ga, gat, call.address, call.type)

EventRegisterCalls ==
    [service : {"event_register"}, address : AddressLists, type : ServiceTypes,
     remove : BOOLEAN]

NoCall == [service |-> "None", address |-> <<>>, type |-> "None", remove |-> FALSE]

\* ------------------------------------------------------------------ service send

\* xknx.current_address, the source of the telegrams the services send.
CurrentAddress == IndividualAddress(4353)

\* The payloads of the send calls: integers, and lists of integers.
IntPayloads == {IntValue(1), IntValue(50), IntValue(64)}

ListPayloads == {[type |-> "list", v |-> <<1>>], [type |-> "list", v |-> <<1, 2>>]}

\* A value_type name no transcoder is registered for.
UnknownType == "unknown"

\* The calls of the send handler: with a type any payload (here an integer),
\* without a type an integer or a list of integers.  The handler checks the
\* type itself (parse_transcoder returning None), so a type that names no
\* transcoder is among the calls it handles.
SendCalls ==
    [service : {"send"}, address : AddressLists, payload : IntPayloads,
     type : KnownTypes \cup {UnknownType}, response : BOOLEAN]
    \cup [service : {"send"}, address : AddressLists,
          payload : IntPayloads \cup ListPayloads, type : {"None"}, response : BOOLEAN]

\* Outcome of building a payload: the DPTBinary / DPTArray, or the exception.
Encoded(pv) == [error |-> "None", payload |-> pv]

EncodeError(name) == [error |-> name, payload |-> NoPayloadValue]

\* round(num / den) as Python rounds: halves go to the even neighbour.
RoundHalfEven(num, den) ==
    LET floor == num \div den
        rest == num % den
    IN  IF 2 * rest > den THEN floor + 1
        ELSE IF 2 * rest < den THEN floor
        ELSE IF floor % 2 = 0 THEN floor ELSE floor + 1

\* DPTScaling.to_knx: a percentage 0..100 scaled to one byte.
DPTScaling_to_knx(value) ==
    IF value.type = "int" /\ value.v[1] \in 0 .. 100
    THEN Encoded(DPTArray(<<RoundHalfEven(value.v[1] * 255, 100)>>))
    ELSE EncodeError("ConversionError")

\* DPTDate.to_knx: only a date is serialized, a number is not.
DPTDate_to_knx(value) == EncodeError("ConversionError")

to_knx(transcoder, value) ==
    IF transcoder = "DPTScaling" THEN DPTScaling_to_knx(value) ELSE DPTDate_to_knx(value)

\* DPTBinary(value): the integer must fit the six bits of the APCI.
NewDPTBinary(n) == IF n > 63 THEN EncodeError("ConversionError") ELSE Encoded(DPTBinary(n))

\* DPTArray(value): the list as a tuple of bytes.
NewDPTArray(list) == Encoded(DPTArray(list))

\* Mutant: a payload without type is always treated as raw bytes.
RawPayload_AlwaysArray(attr_payload) == NewDPTArray(attr_payload.v)

\* The payload of a call without type: DPTBinary for an int, DPTArray otherwise.
RawPayload(attr_payload) ==
    IF attr_payload.type = "int" THEN NewDPTBinary(attr_payload.v[1])
    ELSE NewDPTArray(attr_payload.v)

\* The payload of the call, or the error the call ends with.
SendPayload(call) ==
    IF call.type # "None"
    THEN LET transcoder == parse_transcoder(call.type)
         IN  IF transcoder = "None" THEN EncodeError("ServiceValidationError")
             ELSE IF to_knx(transcoder, call.payload).error = "ConversionError"
             THEN EncodeError("ServiceValidationError")
             ELSE to_knx(transcoder, call.payload)
    ELSE RawPayload(call.payload)

\* Mutant: the addresses are walked from the last to the first.
SendTelegrams_Reversed(call, pv) ==
    [k \in 1 .. Len(call.address) |->
        Telegram(call.address[Len(call.address) + 1 - k],
                 IF call.response THEN GroupValueResponse(pv) ELSE GroupValueWrite(pv),
                 CurrentAddress, "Outgoing")]

\* The loop over attr_address: one telegram per address put on the queue.
SendTelegrams(call, pv) ==
    [k \in 1 .. Len(call.address) |->
        Telegram(call.address[k],
                 IF call.response THEN GroupValueResponse(pv) ELSE GroupValueWrite(pv),
                 CurrentAddress, "Outgoing")]

\* Mutant: the payload is built inside the loop, after the telegram of the
\* first address was put on the queue with the payload still unset.
service_send_to_knx2_bus_PutsFirst(queue, call) ==
    LET built == SendPayload(call)
    IN  IF built.error # "None"
        THEN [telegrams |-> Append(queue, Telegram(call.address[1],
                                                   GroupValueWrite(NoPayloadValue),
                                                   CurrentAddress, "Outgoing")),
              error |-> built.error]
        ELSE [telegrams |-> queue \o SendTelegrams(call, built.payload),
              error |-> "None"]

\* service_send_to_knx2_bus: the outbound queue after the call, and the
\* exception the call raised.
service_send_to_knx2_bus(queue, call) ==
    LET built == SendPayload(call)
    IN  IF built.error # "None" THEN [telegrams |-> queue, error |-> built.error]
        ELSE [telegrams |-> queue \o SendTelegrams(call, built.payload),
              error |-> "None"]

\* ------------------------------------------------------------------ service read

ReadCalls == [service : {"read"}, address : AddressLists]

\* service_read_to_knx2_bus: the outbound queue after the call.
service_read_to_knx2_bus(queue, call) ==
    queue \o [k \in 1 .. Len(call.address) |->
                 Telegram(call.address[k], GroupValueRead, CurrentAddress, "Outgoing")]

\* ------------------------------------------------------------------ the module

\* The key of hass.data the module is published under.
KNX2_MODULE_KEY == "knx2"

\* get_knx2_module: the module, or the error raised when the key is missing.
get_knx2_module(data) ==
    IF KNX2_MODULE_KEY \in data THEN "KNX2Module" ELSE "HomeAssistantError"

\* A device of xknx.devices: the device of an entity or of an exposure.
Device(kind, address) == [kind |-> kind, address |-> address]

\* The devices of the entities the platforms add: a switch and a button.
EntityDevices == {Device("Switch", GA(1, 2, 5)), Device("RawValue", GA(1, 3, 1))}

\* An exposure: its ExposeSensor device sends the value of an entity to address.
Exposure(address) == [address |-> address, device |-> Device("ExposeSensor", address)]

\* Mutant: the bus connection is started before anything is loaded.
StartSteps_ConnectsFirst == <<"xknx.start", "load_project", "load_data", "load_history">>

\* The steps of KNX2Module.start, in the order it awaits them.
StartSteps == <<"load_project", "load_data", "load_history", "xknx.start">>

\* ------------------------------------------------------------------ the entities

\* Number of unique ids the platforms have entities for.
MaxEntities == 1

\* STATE_UNKNOWN, STATE_UNAVAILABLE, STATE_ON of homeassistant.const.
STATE_UNKNOWN == "unknown"

STATE_UNAVAILABLE == "unavailable"

STATE_ON == "on"

\* The value of a RemoteValue: its Python type and its text; None at first.
DeviceValue(type, v) == [type |-> type, v |-> v]

DeviceNone == DeviceValue("None", "")

\* The year, month and day a text of the form YYYY-MM-DD is written with.
DateFields == [t \in {"2024-02-29", "2023-02-30"} |->
                  IF t = "2024-02-29" THEN <<2024, 2, 29>> ELSE <<2023, 2, 30>>]

\* date.fromisoformat: the date of the text, or ValueError when the text
\* has not the form of a date or names a day its month has not.
fromisoformat(text) ==
    IF text \notin DOMAIN DateFields THEN "ValueError"
    ELSE LET f == DateFields[text]
         IN  IF f[2] \in 1 .. 12 /\ f[3] \in 1 .. DaysInMonth(f[1], f[2])
             THEN text ELSE "ValueError"

\* The entity classes: which restore a state, and the last states the host
\* can hold for them ("None": no state is persisted).
RestoreKinds == {"Switch", "Text", "Date", "BinarySensor"}

LastStates(kind) ==
    {"None", STATE_UNKNOWN, STATE_UNAVAILABLE}
        \cup (IF kind \in {"Switch", "BinarySensor"} THEN {STATE_ON, "off"}
              ELSE IF kind = "Text" THEN {"hello"}
              ELSE IF kind = "Date" THEN DOMAIN DateFields
              ELSE {})

\* An entity object as its __init__ leaves it: the device is built but not
\* in xknx.devices, no callback is registered, the value is None.
NewEntity(unique_id, kind, address, readable, last_state, config) ==
    [unique_id |-> unique_id, kind |-> kind, address |-> address,
     readable |-> readable, last_state |-> last_state, config |-> config,
     platform_state |-> "adding", hook |-> "none", callback |-> FALSE,
     in_devices |-> FALSE, value |-> DeviceNone, received |-> FALSE]

\* Mutant: the state is restored for the devices that can be read.
restore_last_state_ReadableOnly(e) ==
    IF \/ e.kind \notin RestoreKinds
       \/ (e.kind # "BinarySensor" /\ ~e.readable)
       \/ e.last_state = "None"
       \/ e.last_state \in {STATE_UNKNOWN, STATE_UNAVAILABLE}
    THEN e.value
    ELSE IF e.kind \in {"Switch", "BinarySensor"}
    THEN DeviceValue("bool", IF e.last_state = STATE_ON THEN "True" ELSE "False")
    ELSE IF e.kind = "Text" THEN DeviceValue("str", e.last_state)
    ELSE IF fromisoformat(e.last_state) = "ValueError" THEN DeviceValue("ValueError", "")
    ELSE DeviceValue("XKNXDate", fromisoformat(e.last_state))

\* The seed the subclass's async_added_to_hass takes from the last state:
\* the value of the RemoteValue, unchanged when nothing is restored, or
\* ValueError.  A binary sensor does not look at readable.
restore_last_state(e) ==
    IF \/ e.kind \notin RestoreKinds
       \/ (e.kind # "BinarySensor" /\ e.readable)
       \/ e.last_state = "None"
       \/ e.last_state \in {STATE_UNKNOWN, STATE_UNAVAILABLE}
    THEN e.value
    ELSE IF e.kind \in {"Switch", "BinarySensor"}
    THEN DeviceValue("bool", IF e.last_state = STATE_ON THEN "True" ELSE "False")
    ELSE IF e.kind = "Text" THEN DeviceValue("str", e.last_state)
    ELSE IF fromisoformat(e.last_state) = "ValueError" THEN DeviceValue("ValueError", "")
    ELSE DeviceValue("XKNXDate", fromisoformat(e.last_state))

\* Mutant: the read of the last state waits for the host.
SuspensionPoints_LastStateWaits ==
    {"async_add_entities", "async_remove_entity", "async_save", "xknx.start",
     "xknx.stop", "save_history", "async_get_last_state"}

\* The awaits at which a coroutine of the integration gives up the event
\* loop; an await of a coroutine that returns without waiting does not.
SuspensionPoints ==
    {"async_add_entities", "async_remove_entity", "async_save", "xknx.start",
     "xknx.stop", "save_history"}

\* The awaits of the async_added_to_hass hooks between the bind and the
\* restore: the hook of the base classes and the read of the last state.
HookAwaits == {"super().async_added_to_hass", "async_get_last_state"}

\* xknx.devices as the entities' devices make it up.
DevicesOf(list) ==
    {Device(list[i].kind, list[i].address) :
         i \in {k \in 1 .. Len(list) : list[k].in_devices}}

\* The entity objects of the platforms with a new one: it takes the place of
\* the removed object that had its unique id, or is put behind the others.
Platform(list, e) ==
    IF \E i \in 1 .. Len(list) :
           list[i].unique_id = e.unique_id /\ list[i].platform_state = "removed"
    THEN [i \in 1 .. Len(list) |->
             IF list[i].unique_id = e.unique_id /\ list[i].platform_state = "removed"
             THEN e ELSE list[i]]
    ELSE Append(list, e)

\* ------------------------------------------------------------------ websocket

\* Number of websocket messages handled on the connection.
MaxRequests == 2

\* The entity ids the entity commands name.
EntityIds == {"switch.a", "switch.b"}

\* connection.send_result / send_error / send_event: the message sent.
send_result(id, message) == [id |-> id, kind |-> "result", message |-> message]

send_error(id, message) == [id |-> id, kind |-> "error", message |-> message]

send_event(id, telegram_dict) == [id |-> id, kind |-> "event", telegram |-> telegram_dict]

\* A message: valid is what validate_entity_data finds, file_ok whether the
\* project file can be parsed with the password.
Message(id, type, valid, entity_id, file_ok) ==
    [id |-> id, type |-> type, valid |-> valid, entity_id |-> entity_id,
     file_ok |-> file_ok]

\* The configurations of a switch a create or update message carries: a
\* dict, written as the set of its items.  The last names no group address.
SwitchConfigs ==
    {{<<"ga_switch", "1/4/1">>, <<"invert", "True">>, <<"entity_category", "config">>},
     {<<"ga_switch", "1/4/2">>},
     {<<"ga_switch", "1/4/x">>}}

\* The group addresses the texts of the configurations stand for.
GroupAddressOf == [t \in {"1/4/1", "1/4/2"} |->
                      IF t = "1/4/1" THEN GA(1, 4, 1) ELSE GA(1, 4, 2)]

\* The keys of a dict and the value under a key.
Keys(data) == {item[1] : item \in data}

Get(data, key) == (CHOOSE item \in data : item[1] = key)[2]

\* validate_entity_data: EntityStoreValidationException for a text that is
\* no group address; else the data with the defaults of the schema applied.
validate_entity_data(data) ==
    IF \E item \in data : item[1] = "ga_switch" /\ item[2] \notin DOMAIN GroupAddressOf
    THEN [error |-> "EntityStoreValidationException", data |-> data]
    ELSE [error |-> "None",
          data |-> data \cup (IF "invert" \in Keys(data) THEN {}
                              ELSE {<<"invert", "False">>})]

\* A create or update message with its data.
EntityMessage(id, type, data, entity_id) ==
    [id |-> id, type |-> type, valid |-> validate_entity_data(data).error = "None",
     entity_id |-> entity_id, file_ok |-> TRUE, data |-> data]

\* The result ws_get_entity_config sends: the configuration of the entity.
send_config(id, config) ==
    [id |-> id, kind |-> "result", message |-> "config_info", data |-> config]

\* The commands that answer with one result whatever the module holds.
QueryCommands ==
    {"knx2/info", "knx2/get_knx2_project", "knx2/project_file_remove",
     "knx2/group_monitor_info", "knx2/group_telegrams", "knx2/get_entity_entries",
     "knx2/create_device"}

\* The messages with a given id that register_panel has a handler for
\* (subscribe_telegrams apart).
WsMessages(id) ==
    {Message(id, type, TRUE, "switch.a", TRUE) : type \in QueryCommands}
    \cup {Message(id, "knx2/project_file_process", TRUE, "switch.a", ok) : ok \in BOOLEAN}
    \cup {Message(id, "knx2/validate_entity", valid, "switch.a", TRUE) : valid \in BOOLEAN}
    \cup {EntityMessage(id, type, data, e) :
              type \in {"knx2/create_entity", "knx2/update_entity"},
              data \in SwitchConfigs, e \in EntityIds}
    \cup {Message(id, type, TRUE, e, TRUE) :
              type \in {"knx2/delete_entity", "knx2/get_entity_config"},
              e \in EntityIds}

\* The outcome of a handler: the messages it sent and the config store.
Handled(replies, store) == [replies |-> replies, config_store |-> store]

\* Mutant: an update keeps the keys of the old configuration that the new
\* one has not.
config_store_call_Merges(store, msg) ==
    IF msg.type = "knx2/create_entity"
    THEN IF msg.entity_id \in DOMAIN store
         THEN [error |-> "ConfigStoreException", config_store |-> store]
         ELSE [error |-> "None",
               config_store |-> DictUpdate(store, {msg.entity_id},
                                           validate_entity_data(msg.data).data)]
    ELSE IF msg.entity_id \notin DOMAIN store
    THEN [error |-> "ConfigStoreException", config_store |-> store]
    ELSE IF msg.type = "knx2/delete_entity"
    THEN [error |-> "None", config_store |-> DictDel(store, msg.entity_id)]
    ELSE IF msg.type = "knx2/update_entity"
    THEN LET new == validate_entity_data(msg.data).data
             kept == {item \in store[msg.entity_id] : item[1] \notin Keys(new)}
         IN  [error |-> "None",
              config_store |-> DictUpdate(store, {msg.entity_id}, new \cup kept)]
    ELSE [error |-> "None", config_store |-> store]

\* KNX2ConfigStore create_entity / update_entity / delete_entity /
\* get_entity_config: the store after the call, or ConfigStoreException for
\* an id that is already there (create) or not there (the others).
config_store_call(store, msg) ==
    IF msg.type = "knx2/create_entity"
    THEN IF msg.entity_id \in DOMAIN store
         THEN [error |-> "ConfigStoreException", config_store |-> store]
         ELSE [error |-> "None",
               config_store |-> DictUpdate(store, {msg.entity_id},
                                           validate_entity_data(msg.data).data)]
    ELSE IF msg.entity_id \notin DOMAIN store
    THEN [error |-> "ConfigStoreException", config_store |-> store]
    ELSE IF msg.type = "knx2/delete_entity"
    THEN [error |-> "None", config_store |-> DictDel(store, msg.entity_id)]
    ELSE IF msg.type = "knx2/update_entity"
    THEN [error |-> "None",
          config_store |-> DictUpdate(store, {msg.entity_id},
                                      validate_entity_data(msg.data).data)]
    ELSE [error |-> "None", config_store |-> store]

\* ws_validate_entity: the validation error or the success, as a result.
ws_validate_entity(store, msg) ==
    IF ~msg.valid THEN Handled(<<send_result(msg.id, "validation_error")>>, store)
    ELSE Handled(<<send_result(msg.id, "success")>>, store)

\* Mutant: the handler goes on after it has sent the error.
ws_store_entity_NoReturn(store, msg) ==
    IF ~msg.valid THEN Handled(<<send_result(msg.id, "validation_error")>>, store)
    ELSE LET out == config_store_call(store, msg)
         IN  IF out.error # "None"
             THEN Handled(<<send_error(msg.id, "home_assistant_error"),
                            send_result(msg.id, "success")>>, store)
             ELSE Handled(<<send_result(msg.id, "success")>>, out.config_store)

\* Mutant: the data goes to the config store without being validated.
ws_store_entity_SkipsValidation(store, msg) ==
    LET out == config_store_call(store, msg)
    IN  IF out.error # "None"
        THEN Handled(<<send_error(msg.id, "home_assistant_error")>>, store)
        ELSE Handled(<<send_result(msg.id, "success")>>, out.config_store)

\* ws_create_entity / ws_update_entity: a validation failure is a result, a
\* ConfigStoreException an error, each followed by return.
ws_store_entity(store, msg) ==
    IF ~msg.valid THEN Handled(<<send_result(msg.id, "validation_error")>>, store)
    ELSE LET out == config_store_call(store, msg)
         IN  IF out.error # "None"
             THEN Handled(<<send_error(msg.id, "home_assistant_error")>>, store)
             ELSE Handled(<<send_result(msg.id, "success")>>, out.config_store)

\* Mutant: a ConfigStoreException is not told to the requester.
ws_entity_by_id_SwallowsError(store, msg) ==
    LET out == config_store_call(store, msg)
    IN  IF msg.type = "knx2/get_entity_config" /\ out.error = "None"
        THEN Handled(<<send_config(msg.id, store[msg.entity_id])>>, out.config_store)
        ELSE Handled(<<send_result(msg.id, "ok")>>, out.config_store)

\* ws_delete_entity / ws_get_entity_config.
ws_entity_by_id(store, msg) ==
    LET out == config_store_call(store, msg)
    IN  IF out.error # "None"
        THEN Handled(<<send_error(msg.id, "home_assistant_error")>>, store)
        ELSE IF msg.type = "knx2/get_entity_config"
        THEN Handled(<<send_config(msg.id, store[msg.entity_id])>>, out.config_store)
        ELSE Handled(<<send_result(msg.id, "ok")>>, out.config_store)

\* ws_project_file_process: ValueError / XknxProjectException is an error.
ws_project_file_process(store, msg) ==
    IF ~msg.file_ok THEN Handled(<<send_error(msg.id, "home_assistant_error")>>, store)
    ELSE Handled(<<send_result(msg.id, "ok")>>, store)

\* The handler of a command that takes the module.
ws_handler(store, msg) ==
    IF msg.type \in {"knx2/create_entity", "knx2/update_entity"}
    THEN ws_store_entity(store, msg)
    ELSE IF msg.type \in {"knx2/delete_entity", "knx2/get_entity_config"}
    THEN ws_entity_by_id(store, msg)
    ELSE IF msg.type = "knx2/project_file_process"
    THEN ws_project_file_process(store, msg)
    ELSE Handled(<<send_result(msg.id, "ok")>>, store)

\* provide_knx2: the handler is called with the module, or the not loaded
\* error is sent and the handler is not called.
provide_knx2(data, store, msg) ==
    IF KNX2_MODULE_KEY \notin data
    THEN Handled(<<send_error(msg.id, "KNX2 integration not loaded.")>>, store)
    ELSE ws_handler(store, msg)

\* ---- the platform controller of the UI entities

\* The unique id the entity registry holds for an entity id.
UniqueIdOf(entity_id) == "knx_es_" \o entity_id

\* Knx2UiSwitch(knx2_module, unique_id, config): the state address is not
\* read when the configuration names none.
Knx2UiSwitch(unique_id, config, last_state) ==
    NewEntity(unique_id, "Switch", GroupAddressOf[Get(config, "ga_switch")],
              "ga_switch_state" \in Keys(config), last_state, config)

\* async_added_to_hass from its first line to its last: the device is bound
\* and the state restored; the host then marks the entity added.
async_added_to_hass(e) ==
    LET bound == [e EXCEPT !.callback = TRUE, !.in_devices = TRUE]
        seed == restore_last_state(bound)
    IN  IF seed.type = "ValueError"
        THEN [bound EXCEPT !.hook = "raised", !.platform_state = "failed"]
        ELSE [bound EXCEPT !.hook = "done", !.platform_state = "added",
                           !.value = seed]

\* A call on the entity platform, as platform_calls keeps it.
PlatformCall(op, unique_id) == [op |-> op, unique_id |-> unique_id]

\* The entities and the calls made on the platform so far.
Controlled(list, calls) == [entities |-> list, calls |-> calls]

\* entity_platform.async_remove_entity: the host removes the entity that
\* is added under the unique id, which unbinds its device.
async_remove_entity(now, unique_id) ==
    Controlled(
        [i \in 1 .. Len(now.entities) |->
            IF /\ now.entities[i].unique_id = unique_id
               /\ now.entities[i].platform_state = "added"
            THEN [now.entities[i] EXCEPT !.platform_state = "removed",
                                         !.callback = FALSE, !.in_devices = FALSE]
            ELSE now.entities[i]],
        Append(now.calls, PlatformCall("async_remove_entity", unique_id)))

\* Knx2UiEntityPlatformController.create_entity: the platform is given a new
\* entity object; the host does not add an entity whose unique id another
\* entity of the platform has.
create_entity(now, unique_id, config, last_state) ==
    Controlled(
        IF \E i \in 1 .. Len(now.entities) :
               /\ now.entities[i].unique_id = unique_id
               /\ now.entities[i].platform_state # "removed"
        THEN now.entities
        ELSE Platform(now.entities,
                      async_added_to_hass(Knx2UiSwitch(unique_id, config, last_state))),
        Append(now.calls, PlatformCall("async_add_entities", unique_id)))

\* Mutant: the entity is created anew while the old one is still added.
update_entity_InPlace(now, unique_id, config, last_state) ==
    create_entity(now, unique_id, config, last_state)

\* Knx2UiEntityPlatformController.update_entity: the entity is removed and
\* created again with the unique id of its registry entry.
update_entity(now, unique_id, config, last_state) ==
    create_entity(async_remove_entity(now, unique_id), unique_id, config, last_state)

\* What a config store call that succeeds does with the platform: create
\* and update go to the controller, delete removes the registry entry and
\* with it the entity.
controller_call(list, msg, last_state) ==
    LET now == Controlled(list, <<>>)
        unique_id == UniqueIdOf(msg.entity_id)
    IN  IF msg.type = "knx2/create_entity"
        THEN create_entity(now, unique_id, validate_entity_data(msg.data).data,
                           last_state)
        ELSE IF msg.type = "knx2/update_entity"
        THEN update_entity(now, unique_id, validate_entity_data(msg.data).data,
                           last_state)
        ELSE IF msg.type = "knx2/delete_entity"
        THEN async_remove_entity(now, unique_id)
        ELSE now

\* ------------------------------------------------------------------ the state machine

NoCallYet == [call |-> NoCall, warnings |-> 0, error |-> "None"]

\* async_setup_entry has published the started module; no platform has added
\* an entity, nothing is exposed, the connection has reported no state yet.
SetUp ==
    /\ hass_data = {KNX2_MODULE_KEY}
    /\ pc = "running"
    /\ trace = StartSteps
    /\ connected = FALSE
    /\ connection_log = <<>>
    /\ devices = {}
    /\ refreshed = <<>>
    /\ exposures = <<>>
    /\ service_exposures = <<>>
    /\ config_store = <<>>

\* A websocket connection on which no message was handled.
NoMessages ==
    /\ ws_requests = <<>>
    /\ ws_replies = <<>>
    /\ subscriptions = <<>>
    /\ dispatched = <<>>
    /\ commands = <<>>

\* The config entry: how async_setup_entry ended ("None" while it has not
\* returned), whether the platforms were forwarded and the panel registered.
EntryState(result, forwarded, panel) ==
    [result |-> result, forwarded |-> forwarded, panel |-> panel]

\* The entry of a module that is published has been set up to the end.
EntryOf(data) ==
    IF KNX2_MODULE_KEY \in data THEN EntryState("True", TRUE, TRUE)
    ELSE EntryState("None", FALSE, FALSE)

\* Largest telegram log size (CONF_KNX2_TELEGRAM_LOG_SIZE) of a config entry.
MaxLogSize == 2

\* Telegrams: the log_size it was built with and its recent_telegrams.
History(log_size, recent) == [log_size |-> log_size, recent |-> recent]

\* No platform has been given an entity and no telegram is in the history.
NoEntities ==
    /\ entities = <<>>
    /\ history = History(MaxLogSize, <<>>)
    /\ entry_state = EntryOf(hass_data)
    /\ platform_calls = <<>>

\* The module after async_setup_entry with one of the event configurations.
Init ==
    /\ SetUp
    /\ NoMessages
    /\ NoEntities
    /\ \E config \in EventConfigs :
           LET reg == register_event_callback(config, Len(config))
           IN  /\ address_filters = reg.address_filters
               /\ address_filter_transcoder = reg.address_filter_transcoder
    /\ group_addresses = <<>>
    /\ group_address_transcoder = <<>>
    /\ events = <<>>
    /\ delivered = <<>>
    /\ attempts = <<>>
    /\ raised = <<>>
    /\ last_call = NoCallYet
    /\ telegrams = <<>>

\* Mutant: the event of the telegram is put before the events fired earlier.
TelegramReceived_Reordered(telegram) ==
    /\ LET run == telegram_received_cb(telegram, group_address_transcoder,
                                       address_filter_transcoder)
       IN  /\ events' = run.fired \o events
           /\ attempts' = Append(attempts, run.tried)
           /\ raised' = Append(raised, run.raised)
    /\ delivered' = Append(delivered, telegram)
    /\ UNCHANGED <<address_filters, address_filter_transcoder, group_addresses,
                   group_address_transcoder, last_call, telegrams>>
    /\ UNCHANGED <<module_vars, store_vars, ws_vars>>
    /\ UNCHANGED entity_vars

\* The telegram queue hands one telegram to telegram_received_cb.  The
\* queue's own choice of the telegrams it hands over (address_filters,
\* group_addresses) is left open: any telegram may be delivered.
TelegramReceived(telegram) ==
    /\ LET run == telegram_received_cb(telegram, group_address_transcoder,
                                       address_filter_transcoder)
       IN  /\ events' = events \o run.fired
           /\ attempts' = Append(attempts, run.tried)
           /\ raised' = Append(raised, run.raised)
    /\ delivered' = Append(delivered, telegram)
    /\ UNCHANGED <<address_filters, address_filter_transcoder, group_addresses,
                   group_address_transcoder, last_call, telegrams>>
    /\ UNCHANGED <<module_vars, store_vars, ws_vars>>
    /\ UNCHANGED entity_vars

\* A service call that ended in get_knx2_module: the error is raised to the
\* caller and nothing else has happened.
NotLoaded(call) ==
    /\ last_call' = [call |-> call, warnings |-> 0, error |-> "HomeAssistantError"]
    /\ UNCHANGED <<registry_vars, event_vars, telegrams, module_vars, store_vars,
                   ws_vars>>
    /\ UNCHANGED entity_vars

\* One call of the event_register service; the handler has no await, so it
\* runs to its end in one turn of the event loop.
EventRegister(call) ==
    IF get_knx2_module(hass_data) = "HomeAssistantError" THEN NotLoaded(call)
    ELSE
    /\ LET after == service_event_register_modify(group_addresses,
                                                  group_address_transcoder, call)
       IN  /\ group_addresses' = after.group_addresses
           /\ group_address_transcoder' = after.group_address_transcoder
           /\ last_call' = [call |-> call, warnings |-> after.warnings, error |-> "None"]
    /\ UNCHANGED <<address_filters, address_filter_transcoder, events, delivered,
                   attempts, raised, telegrams>>
    /\ UNCHANGED <<module_vars, store_vars, ws_vars>>
    /\ UNCHANGED entity_vars

\* ---- the event registry under event_register calls

NextRegistry == \E call \in EventRegisterCalls : EventRegister(call)

SpecRegistry == Init /\ [][NextRegistry]_vars

\* ---- one telegram translated in a registry that service calls have built

\* Number of event_register calls made before the telegram is delivered.
MaxCalls == 2

\* The subscriptions, exact bindings and last call after at most n calls.
RECURSIVE RegistriesAfter(_)
RegistriesAfter(n) ==
    IF n = 0
    THEN {[group_addresses |-> <<>>, group_address_transcoder |-> <<>>,
           last_call |-> NoCallYet]}
    ELSE LET before == RegistriesAfter(n - 1)
         IN  before \cup
             { LET after == service_event_register_modify(
                                r.group_addresses, r.group_address_transcoder, call)
               IN  [group_addresses |-> after.group_addresses,
                    group_address_transcoder |-> after.group_address_transcoder,
                    last_call |-> [call |-> call, warnings |-> after.warnings,
                                  error |-> "None"]]
               : r \in before, call \in EventRegisterCalls }

InitTranslate ==
    /\ SetUp
    /\ NoMessages
    /\ NoEntities
    /\ \E config \in EventConfigs :
           LET reg == register_event_callback(config, Len(config))
           IN  /\ address_filters = reg.address_filters
               /\ address_filter_transcoder = reg.address_filter_transcoder
    /\ \E r \in RegistriesAfter(MaxCalls) :
           /\ group_addresses = r.group_addresses
           /\ group_address_transcoder = r.group_address_transcoder
           /\ last_call = r.last_call
    /\ events = <<>>
    /\ delivered = <<>>
    /\ attempts = <<>>
    /\ raised = <<>>
    /\ telegrams = <<>>

NextTranslate ==
    \E telegram \in IncomingTelegrams : delivered = <<>> /\ TelegramReceived(telegram)

SpecTranslate == InitTranslate /\ [][NextTranslate]_vars

\* ---- a sequence of telegrams translated one after the other

NextOrder ==
    \E telegram \in IncomingTelegrams :
        Len(delivered) < MaxTelegrams /\ TelegramReceived(telegram)

SpecOrder == Init /\ [][NextOrder]_vars

\* ---- one service call that sends telegrams to the bus

\* One call of the send service.
ServiceSend(call) ==
    IF get_knx2_module(hass_data) = "HomeAssistantError" THEN NotLoaded(call)
    ELSE
    /\ LET after == service_send_to_knx2_bus(telegrams, call)
       IN  /\ telegrams' = after.telegrams
           /\ last_call' = [call |-> call, warnings |-> 0, error |-> after.error]
    /\ UNCHANGED <<address_filters, address_filter_transcoder, group_addresses,
                   group_address_transcoder, events, delivered, attempts, raised>>
    /\ UNCHANGED <<module_vars, store_vars, ws_vars>>
    /\ UNCHANGED entity_vars

NextSend == \E call \in SendCalls : last_call = NoCallYet /\ ServiceSend(call)

SpecSend == Init /\ [][NextSend]_vars

\* ---- one service call that requests values from the bus

\* Mutant: the read handler also subscribes the addresses it reads.
ServiceRead_Subscribes(call) ==
    /\ telegrams' = service_read_to_knx2_bus(telegrams, call)
    /\ group_addresses' = event_register_append(group_addresses, call.address,
                                                Len(call.address))
    /\ last_call' = [call |-> call, warnings |-> 0, error |-> "None"]
    /\ UNCHANGED <<address_filters, address_filter_transcoder,
                   group_address_transcoder, event_vars, module_vars, store_vars,
                   ws_vars>>
    /\ UNCHANGED entity_vars

\* One call of the read service.
ServiceRead(call) ==
    IF get_knx2_module(hass_data) = "HomeAssistantError" THEN NotLoaded(call)
    ELSE
    /\ telegrams' = service_read_to_knx2_bus(telegrams, call)
    /\ last_call' = [call |-> call, warnings |-> 0, error |-> "None"]
    /\ UNCHANGED <<registry_vars, event_vars, module_vars, store_vars, ws_vars>>
    /\ UNCHANGED entity_vars

\* The exposures of the YAML configuration (CONF_KNX2_EXPOSE), created by
\* async_setup_entry, and the exposures exposure_register calls have left.
ExposeConfigs == {<<>>, <<Exposure(GA(1, 2, 6))>>}

ServiceExposures == {<<>>, [a \in {GA(1, 2, 5)} |-> Exposure(a)]}

\* The loaded module with a registry that one event_register call has built,
\* with or without exposures.
InitRead ==
    /\ \E config \in EventConfigs :
           LET reg == register_event_callback(config, Len(config))
           IN  /\ address_filters = reg.address_filters
               /\ address_filter_transcoder = reg.address_filter_transcoder
    /\ \E r \in RegistriesAfter(1) :
           /\ group_addresses = r.group_addresses
           /\ group_address_transcoder = r.group_address_transcoder
           /\ last_call = r.last_call
    /\ events = <<>>
    /\ delivered = <<>>
    /\ attempts = <<>>
    /\ raised = <<>>
    /\ telegrams = <<>>
    /\ hass_data = {KNX2_MODULE_KEY}
    /\ pc = "running"
    /\ trace = StartSteps
    /\ connected = FALSE
    /\ connection_log = <<>>
    /\ \E yaml \in ExposeConfigs, registered \in ServiceExposures :
           /\ exposures = yaml
           /\ service_exposures = registered
           /\ devices = {x.device : x \in Range(yaml)}
                            \cup {registered[a].device : a \in DOMAIN registered}
    /\ refreshed = <<>>
    /\ config_store = <<>>
    /\ NoMessages
    /\ NoEntities

NextRead == \E call \in ReadCalls : telegrams = <<>> /\ ServiceRead(call)

SpecRead == InitRead /\ [][NextRead]_vars

\* ---- websocket commands

\* The connection handles one message; ids grow with every message.  A
\* create, update or delete that the config store accepts goes on to the
\* platform; last_state is the state the host holds for the entity id.
WsCommand(msg) ==
    /\ LET out == IF msg.type = "knx2/validate_entity"
                  THEN ws_validate_entity(config_store, msg)
                  ELSE provide_knx2(hass_data, config_store, msg)
           stored == /\ msg.type \in {"knx2/create_entity", "knx2/update_entity",
                                      "knx2/delete_entity"}
                     /\ out.replies[Len(out.replies)].kind = "result"
                     /\ msg.valid
       IN  /\ ws_replies' = ws_replies \o out.replies
           /\ config_store' = out.config_store
           /\ \E last_state \in {"None", STATE_ON} :
                  LET after == IF stored
                               THEN controller_call(entities, msg, last_state)
                               ELSE Controlled(entities, <<>>)
                  IN  /\ entities' = after.entities
                      /\ platform_calls' = after.calls
    /\ devices' = (devices \ DevicesOf(entities)) \cup DevicesOf(entities')
    /\ ws_requests' = Append(ws_requests, msg)
    /\ UNCHANGED <<registry_vars, event_vars, last_call, telegrams, hass_data, pc,
                   trace, connected, connection_log, refreshed, exposures,
                   service_exposures, subscriptions, dispatched, commands, history,
                   entry_state>>

\* The module is loaded, or no config entry is set up.
InitWebsocket ==
    /\ \E config \in EventConfigs :
           LET reg == register_event_callback(config, Len(config))
           IN  /\ address_filters = reg.address_filters
               /\ address_filter_transcoder = reg.address_filter_transcoder
    /\ group_addresses = <<>>
    /\ group_address_transcoder = <<>>
    /\ events = <<>>
    /\ delivered = <<>>
    /\ attempts = <<>>
    /\ raised = <<>>
    /\ last_call = NoCallYet
    /\ telegrams = <<>>
    /\ \E data \in SUBSET {KNX2_MODULE_KEY} :
           /\ hass_data = data
           /\ pc = (IF data = {} THEN "idle" ELSE "running")
           /\ trace = (IF data = {} THEN <<>> ELSE StartSteps)
    /\ connected = FALSE
    /\ connection_log = <<>>
    /\ devices = {}
    /\ refreshed = <<>>
    /\ exposures = <<>>
    /\ service_exposures = <<>>
    /\ config_store = <<>>
    /\ NoMessages
    /\ NoEntities

NextWebsocket ==
    \E msg \in WsMessages(Len(ws_requests) + 1) :
        Len(ws_requests) < MaxRequests /\ WsCommand(msg)

SpecWebsocket == InitWebsocket /\ [][NextWebsocket]_vars

\* ---- the config store under create, update, delete and get

\* The configuration of the entity switch.a that a create has stored.
StoredConfig ==
    validate_entity_data({<<"ga_switch", "1/4/1">>, <<"invert", "True">>,
                          <<"entity_category", "config">>}).data

\* The config store load_data() has loaded, and the entities the switch
\* platform has added for it.
LoadedStores ==
    {[config_store |-> <<>>, entities |-> <<>>],
     [config_store |-> [e \in {"switch.a"} |-> StoredConfig],
      entities |-> <<async_added_to_hass(
                        Knx2UiSwitch(UniqueIdOf("switch.a"), StoredConfig, "None"))>>]}

\* The commands on the entities of the config store.
StoreMessages(id) ==
    {EntityMessage(id, type, data, e) :
         type \in {"knx2/create_entity", "knx2/update_entity"},
         data \in SwitchConfigs, e \in EntityIds}
    \cup {Message(id, type, TRUE, e, TRUE) :
              type \in {"knx2/delete_entity", "knx2/get_entity_config"},
              e \in EntityIds}

\* The loaded module with the store it has loaded.
InitStore ==
    /\ address_filters = <<>>
    /\ address_filter_transcoder = <<>>
    /\ group_addresses = <<>>
    /\ group_address_transcoder = <<>>
    /\ events = <<>>
    /\ delivered = <<>>
    /\ attempts = <<>>
    /\ raised = <<>>
    /\ last_call = NoCallYet
    /\ telegrams = <<>>
    /\ hass_data = {KNX2_MODULE_KEY}
    /\ pc = "running"
    /\ trace = StartSteps
    /\ connected = FALSE
    /\ connection_log = <<>>
    /\ refreshed = <<>>
    /\ exposures = <<>>
    /\ service_exposures = <<>>
    /\ \E loaded \in LoadedStores :
           /\ config_store = loaded.config_store
           /\ entities = loaded.entities
           /\ devices = DevicesOf(loaded.entities)
    /\ history = History(MaxLogSize, <<>>)
    /\ entry_state = EntryOf(hass_data)
    /\ platform_calls = <<>>
    /\ NoMessages

NextStore ==
    \E msg \in StoreMessages(Len(ws_requests) + 1) :
        Len(ws_requests) < MaxRequests /\ WsCommand(msg)

SpecStore == InitStore /\ [][NextStore]_vars

\* ---- the telegram subscription of the websocket connection

\* Number of telegrams sent on SIGNAL_KNX2_TELEGRAM.
MaxDispatched == 3

\* The TelegramDict of the n-th telegram sent on the signal.
TelegramDict(n) == [timestamp |-> n, telegramtype |-> "GroupValueWrite"]

\* Mutant: the subscriber is first sent the telegram dispatched last.
WsSubscribe_Replays(id) ==
    /\ subscriptions' = Append(subscriptions, id)
    /\ ws_replies' = ws_replies
                         \o (IF dispatched = <<>> THEN <<>>
                             ELSE <<send_event(id, dispatched[Len(dispatched)])>>)
                         \o <<send_result(id, "ok")>>
    /\ ws_requests' = Append(ws_requests,
                             Message(id, "knx2/subscribe_telegrams", TRUE, "switch.a", TRUE))
    /\ UNCHANGED <<registry_vars, event_vars, last_call, telegrams, module_vars,
                   store_vars, dispatched, commands>>
    /\ UNCHANGED entity_vars

\* ws_subscribe_telegram: forward_telegram is connected to the signal, the
\* function that disconnects it is kept under the message id, and the
\* result is sent.
WsSubscribe(id) ==
    /\ subscriptions' = Append(subscriptions, id)
    /\ ws_replies' = Append(ws_replies, send_result(id, "ok"))
    /\ ws_requests' = Append(ws_requests,
                             Message(id, "knx2/subscribe_telegrams", TRUE, "switch.a", TRUE))
    /\ UNCHANGED <<registry_vars, event_vars, last_call, telegrams, module_vars,
                   store_vars, dispatched, commands>>
    /\ UNCHANGED entity_vars

\* The host's unsubscribe_events command with message id id calls the
\* function kept in connection.subscriptions for subscription.
WsUnsubscribe(id, subscription) ==
    /\ Contains(subscriptions, subscription)
    /\ subscriptions' = ListRemove(subscriptions, subscription)
    /\ ws_replies' = Append(ws_replies, send_result(id, "ok"))
    /\ ws_requests' = Append(ws_requests,
                             [id |-> id, type |-> "unsubscribe_events",
                              subscription |-> subscription])
    /\ UNCHANGED <<registry_vars, event_vars, last_call, telegrams, module_vars,
                   store_vars, dispatched, commands>>
    /\ UNCHANGED entity_vars

\* Mutant: a full history keeps what it has and drops the new telegram.
history_append_DropsNewest(h, telegram_dict) ==
    IF Len(h.recent) < h.log_size
    THEN History(h.log_size, Append(h.recent, telegram_dict))
    ELSE h

\* recent_telegrams.append(telegram_dict) on a deque(maxlen=log_size): the
\* new telegram goes to the right end, and a full deque lets go of its
\* leftmost, its oldest, one.
history_append(h, telegram_dict) ==
    LET appended == Append(h.recent, telegram_dict)
    IN  IF Len(appended) <= h.log_size
        THEN History(h.log_size, appended)
        ELSE History(h.log_size,
                     SubSeq(appended, Len(appended) - h.log_size + 1, Len(appended)))

\* The telegram callback of Telegrams: the telegram is appended to
\* recent_telegrams and sent on SIGNAL_KNX2_TELEGRAM, where forward_telegram
\* of every connected subscription runs, in the order the subscriptions
\* were made.
DispatchTelegram ==
    /\ Len(dispatched) < MaxDispatched
    /\ LET telegram_dict == TelegramDict(Len(dispatched) + 1)
       IN  /\ dispatched' = Append(dispatched, telegram_dict)
           /\ history' = history_append(history, telegram_dict)
           /\ ws_replies' = ws_replies
                   \o [k \in 1 .. Len(subscriptions) |->
                          send_event(subscriptions[k], telegram_dict)]
    /\ UNCHANGED <<registry_vars, event_vars, last_call, telegrams, module_vars,
                   store_vars, ws_requests, subscriptions, commands>>
    /\ UNCHANGED <<entities, entry_state, platform_calls>>

NextSubscribe ==
    \/ Len(ws_requests) < MaxRequests /\ WsSubscribe(Len(ws_requests) + 1)
    \/ \E subscription \in Range(subscriptions) :
           WsUnsubscribe(Len(ws_requests) + 1, subscription)
    \/ DispatchTelegram

SpecSubscribe == Init /\ [][NextSubscribe]_vars

\* ---- the telegram history

\* The result of ws_group_monitor_info: the recent telegrams as a list,
\* oldest first.
send_info(id, recent_telegrams) ==
    [id |-> id, kind |-> "result", message |-> "group_monitor_info",
     data |-> recent_telegrams]

\* ws_group_monitor_info: the recent telegrams are copied into the result.
WsGroupMonitorInfo(id) ==
    /\ ws_replies' = Append(ws_replies, send_info(id, history.recent))
    /\ ws_requests' = Append(ws_requests,
                             Message(id, "knx2/group_monitor_info", TRUE, "switch.a", TRUE))
    /\ UNCHANGED <<registry_vars, event_vars, last_call, telegrams, module_vars,
                   store_vars, subscriptions, dispatched, commands>>
    /\ UNCHANGED entity_vars

\* KNX2Module.__init__ has built Telegrams with the log_size of the entry's
\* data; no telegram has been received.
InitHistory ==
    /\ SetUp
    /\ NoMessages
    /\ address_filters = <<>>
    /\ address_filter_transcoder = <<>>
    /\ group_addresses = <<>>
    /\ group_address_transcoder = <<>>
    /\ events = <<>>
    /\ delivered = <<>>
    /\ attempts = <<>>
    /\ raised = <<>>
    /\ last_call = NoCallYet
    /\ telegrams = <<>>
    /\ entities = <<>>
    /\ entry_state = EntryOf(hass_data)
    /\ platform_calls = <<>>
    /\ \E log_size \in 0 .. MaxLogSize : history = History(log_size, <<>>)

NextHistory ==
    \/ DispatchTelegram
    \/ Len(ws_requests) < MaxRequests /\ WsGroupMonitorInfo(Len(ws_requests) + 1)
    \/ Len(ws_requests) < MaxRequests /\ WsSubscribe(Len(ws_requests) + 1)

SpecHistory == InitHistory /\ [][NextHistory]_vars

\* ---- setting up, unloading and stopping the module

\* What an await of start() raises: the exception of xknx, or another one.
StartExceptions == {"XKNXException", "Exception"}

\* Number of telegrams on the outbound queue of one module.
MaxQueue == 2

\* async_setup_entry up to `await knx2_module.start()`: KNX2Module.__init__
\* builds a new module, with a new XKNX object, from the configuration.
SetupEntry(config) ==
    /\ pc = "idle"
    /\ pc' = "start"
    /\ LET reg == register_event_callback(config, Len(config))
       IN  /\ address_filters' = reg.address_filters
           /\ address_filter_transcoder' = reg.address_filter_transcoder
    /\ group_addresses' = <<>>
    /\ group_address_transcoder' = <<>>
    /\ telegrams' = <<>>
    /\ trace' = <<>>
    /\ connected' = FALSE
    /\ connection_log' = <<>>
    /\ devices' = {}
    /\ refreshed' = <<>>
    /\ exposures' = <<>>
    /\ service_exposures' = <<>>
    /\ history' = History(MaxLogSize, <<>>)
    /\ entry_state' = [entry_state EXCEPT !.result = "None"]
    /\ UNCHANGED <<event_vars, last_call, hass_data, config_store, ws_vars,
                   entities, platform_calls>>

\* start(): the next of its awaits has returned.
StartStep ==
    /\ pc = "start"
    /\ Len(trace) < Len(StartSteps)
    /\ trace' = Append(trace, StartSteps[Len(trace) + 1])
    /\ UNCHANGED <<registry_vars, event_vars, last_call, telegrams, hass_data, pc,
                   connected, connection_log, devices, refreshed, store_vars, ws_vars>>
    /\ UNCHANGED entity_vars

\* Mutant: the module is published although start() has raised.
StartFailed_Publishes(exception) ==
    /\ pc = "start"
    /\ Len(trace) < Len(StartSteps)
    /\ pc' = "idle"
    /\ hass_data' = hass_data \cup {KNX2_MODULE_KEY}
    /\ entry_state' = [entry_state EXCEPT
                           !.result = IF exception = "XKNXException"
                                      THEN "ConfigEntryNotReady" ELSE exception]
    /\ UNCHANGED <<registry_vars, event_vars, last_call, telegrams, trace,
                   connected, connection_log, devices, refreshed, store_vars, ws_vars,
                   entities, history, platform_calls>>

\* start() has returned: the module is published, the YAML exposures are
\* created, the platforms are forwarded and add their entities, which add
\* their devices, and the panel is registered.
StartDone(yaml) ==
    /\ pc = "start"
    /\ trace = StartSteps
    /\ pc' = "running"
    /\ hass_data' = hass_data \cup {KNX2_MODULE_KEY}
    /\ exposures' = yaml
    /\ devices' = EntityDevices \cup {x.device : x \in Range(yaml)}
    /\ entry_state' = EntryState("True", TRUE, TRUE)
    /\ UNCHANGED <<registry_vars, event_vars, last_call, telegrams, trace, connected,
                   connection_log, refreshed, service_exposures, config_store,
                   ws_vars, entities, history, platform_calls>>

\* The next await of start() has raised: an XKNXException is raised on as
\* ConfigEntryNotReady, on which the host sets the entry up again later;
\* any other exception leaves async_setup_entry as it is. Nothing after the
\* try statement runs.
StartFailed(exception) ==
    /\ pc = "start"
    /\ Len(trace) < Len(StartSteps)
    /\ pc' = "idle"
    /\ entry_state' = [entry_state EXCEPT
                           !.result = IF exception = "XKNXException"
                                      THEN "ConfigEntryNotReady" ELSE exception]
    /\ UNCHANGED <<registry_vars, event_vars, last_call, telegrams, hass_data, trace,
                   connected, connection_log, devices, refreshed, store_vars, ws_vars,
                   entities, history, platform_calls>>

\* async_unload_entry up to `await knx2_module.stop()`: the YAML exposures
\* are removed and the platforms are unloaded, which removes the devices of
\* their entities; when that fails the module is left running.
UnloadEntry(unload_ok) ==
    /\ pc = "running"
    /\ KNX2_MODULE_KEY \in hass_data
    /\ pc' = (IF unload_ok THEN "unload_stop" ELSE "running")
    /\ devices' = (devices \ {x.device : x \in Range(exposures)})
                      \ (IF unload_ok THEN EntityDevices ELSE {})
    /\ entry_state' = [entry_state EXCEPT !.forwarded = ~unload_ok]
    /\ UNCHANGED <<registry_vars, event_vars, last_call, telegrams, hass_data, trace,
                   connected, connection_log, refreshed, store_vars, ws_vars,
                   entities, history, platform_calls>>

\* EVENT_HOMEASSISTANT_STOP: the listener of __init__ calls stop().
HostStop ==
    /\ pc = "running"
    /\ pc' = "event_stop"
    /\ UNCHANGED <<registry_vars, event_vars, last_call, telegrams, hass_data, trace,
                   connected, connection_log, devices, refreshed, store_vars, ws_vars>>
    /\ UNCHANGED entity_vars

\* stop(): `await self.xknx.stop()` has returned.
XknxStop ==
    /\ pc \in {"unload_stop", "event_stop"}
    /\ pc' = (IF pc = "unload_stop" THEN "unload_save" ELSE "event_save")
    /\ trace' = Append(trace, "xknx.stop")
    /\ UNCHANGED <<registry_vars, event_vars, last_call, telegrams, hass_data,
                   connected, connection_log, devices, refreshed, store_vars, ws_vars>>
    /\ UNCHANGED entity_vars

\* stop(): `await self.telegrams.save_history()` has returned; in
\* async_unload_entry the module is then taken out of hass.data.
SaveHistory ==
    /\ pc \in {"unload_save", "event_save"}
    /\ pc' = (IF pc = "unload_save" THEN "idle" ELSE "halted")
    /\ trace' = Append(trace, "save_history")
    /\ hass_data' = (IF pc = "unload_save" THEN hass_data \ {KNX2_MODULE_KEY}
                     ELSE hass_data)
    /\ UNCHANGED <<registry_vars, event_vars, last_call, telegrams, connected,
                   connection_log, devices, refreshed, store_vars, ws_vars>>
    /\ UNCHANGED entity_vars

\* No config entry is set up yet.
InitLifecycle ==
    /\ address_filters = <<>>
    /\ address_filter_transcoder = <<>>
    /\ group_addresses = <<>>
    /\ group_address_transcoder = <<>>
    /\ events = <<>>
    /\ delivered = <<>>
    /\ attempts = <<>>
    /\ raised = <<>>
    /\ last_call = NoCallYet
    /\ telegrams = <<>>
    /\ hass_data = {}
    /\ pc = "idle"
    /\ trace = <<>>
    /\ connected = FALSE
    /\ connection_log = <<>>
    /\ devices = {}
    /\ refreshed = <<>>
    /\ exposures = <<>>
    /\ service_exposures = <<>>
    /\ config_store = <<>>
    /\ NoMessages
    /\ NoEntities

\* The module is set up, unloaded and stopped while a send, a read and an
\* event_register call and the info command are made.
NextLifecycle ==
    \/ \E config \in EventConfigs : SetupEntry(config)
    \/ StartStep
    \/ \E yaml \in ExposeConfigs : StartDone(yaml)
    \/ \E exception \in StartExceptions : StartFailed(exception)
    \/ \E unload_ok \in BOOLEAN : UnloadEntry(unload_ok)
    \/ HostStop
    \/ XknxStop
    \/ SaveHistory
    \/ \E call \in {c \in SendCalls : /\ c.address = <<GA(1, 2, 5)>>
                                      /\ c.payload = IntValue(1)
                                      /\ c.type = "None"
                                      /\ ~c.response} :
           Len(telegrams) < MaxQueue /\ ServiceSend(call)
    \/ \E call \in {c \in ReadCalls : c.address = <<GA(1, 2, 5)>>} :
           Len(telegrams) < MaxQueue /\ ServiceRead(call)
    \/ \E call \in {c \in EventRegisterCalls :
                        c.address = <<GA(1, 2, 5)>> /\ c.type = "date"} :
           EventRegister(call)
    \/ /\ Len(ws_requests) < MaxRequests
       /\ WsCommand(Message(Len(ws_requests) + 1, "knx2/info", TRUE, "switch.a", TRUE))

SpecLifecycle == InitLifecycle /\ [][NextLifecycle]_vars

\* The config entry is set up, unloaded and stopped.
NextStart ==
    \/ \E config \in EventConfigs : SetupEntry(config)
    \/ StartStep
    \/ \E yaml \in ExposeConfigs : StartDone(yaml)
    \/ \E exception \in StartExceptions : StartFailed(exception)
    \/ \E unload_ok \in BOOLEAN : UnloadEntry(unload_ok)
    \/ HostStop
    \/ XknxStop
    \/ SaveHistory

SpecStart == InitLifecycle /\ [][NextStart]_vars

\* ---- the connection state and the commands of the entities

\* Number of connection states the wire layer reports.
MaxReports == 2

\* Number of commands the entities handle.
MaxCommands == 2

\* XknxConnectionState
ConnectionStates == {"DISCONNECTED", "CONNECTING", "CONNECTED"}

\* _Knx2EntityBase.available, the same for every entity of the module.
available == connected

\* Mutant: a connection that is being established counts as connected.
ConnectionStateChanged_ConnectingCounts(state) ==
    /\ connected' = (state # "DISCONNECTED")
    /\ refreshed' = Append(refreshed, devices)
    /\ connection_log' = Append(connection_log, state)
    /\ UNCHANGED <<registry_vars, event_vars, last_call, telegrams, hass_data, pc,
                   trace, devices, store_vars, ws_vars>>
    /\ UNCHANGED entity_vars

\* Mutant: a lost connection discards the exact transcoder bindings.
ConnectionStateChanged_DropsBindings(state) ==
    /\ connected' = (state = "CONNECTED")
    /\ refreshed' = Append(refreshed, devices)
    /\ connection_log' = Append(connection_log, state)
    /\ group_address_transcoder'
           = (IF state = "CONNECTED" THEN group_address_transcoder ELSE <<>>)
    /\ UNCHANGED <<address_filters, address_filter_transcoder, group_addresses,
                   event_vars, last_call, telegrams, hass_data, pc, trace, devices,
                   store_vars, ws_vars>>
    /\ UNCHANGED entity_vars

\* connection_state_changed_cb: the flag is set from the state and
\* after_update() is called on every device of xknx.devices.
ConnectionStateChanged(state) ==
    /\ connected' = (state = "CONNECTED")
    /\ refreshed' = Append(refreshed, devices)
    /\ connection_log' = Append(connection_log, state)
    /\ UNCHANGED <<registry_vars, event_vars, last_call, telegrams, hass_data, pc,
                   trace, devices, store_vars, ws_vars>>
    /\ UNCHANGED entity_vars

\* The commands of the entity of a device: async_turn_on / async_turn_off of
\* a switch, async_press of a button.
EntityCommands(device) ==
    IF device.kind = "Switch" THEN {"turn_on", "turn_off"}
    ELSE IF device.kind = "RawValue" THEN {"press"}
    ELSE {}

\* The telegram the device queues for the command: set_on() / set_off() write
\* the bit 1 / 0, set(payload) writes the payload of the button, one byte 1.
CommandTelegram(device, command) ==
    Telegram(device.address,
             GroupValueWrite(IF command = "turn_on" THEN DPTBinary(1)
                             ELSE IF command = "turn_off" THEN DPTBinary(0)
                             ELSE DPTArray(<<1>>)),
             CurrentAddress, "Outgoing")

\* An entity handles a command: it awaits the method of its device, which
\* puts the telegram on the outbound queue; connected is not looked at.
EntityCommand(device, command) ==
    /\ device \in devices
    /\ command \in EntityCommands(device)
    /\ telegrams' = Append(telegrams, CommandTelegram(device, command))
    /\ commands' = Append(commands, [device |-> device, command |-> command])
    /\ UNCHANGED <<registry_vars, event_vars, last_call, module_vars, store_vars,
                   ws_requests, ws_replies, subscriptions, dispatched>>
    /\ UNCHANGED entity_vars

\* The event_register call that has built the registry of InitConnection.
ConnectionRegister ==
    [service |-> "event_register", address |-> <<GA(1, 2, 5)>>, type |-> "date",
     remove |-> FALSE]

\* The loaded module with its entities added, one address subscribed and
\* bound, exposures of both kinds and one entity in the config store.
InitConnection ==
    /\ \E config \in EventConfigs :
           LET reg == register_event_callback(config, Len(config))
           IN  /\ address_filters = reg.address_filters
               /\ address_filter_transcoder = reg.address_filter_transcoder
    /\ LET after == service_event_register_modify(<<>>, <<>>, ConnectionRegister)
       IN  /\ group_addresses = after.group_addresses
           /\ group_address_transcoder = after.group_address_transcoder
    /\ last_call = [call |-> ConnectionRegister, warnings |-> 0, error |-> "None"]
    /\ events = <<>>
    /\ delivered = <<>>
    /\ attempts = <<>>
    /\ raised = <<>>
    /\ telegrams = <<>>
    /\ hass_data = {KNX2_MODULE_KEY}
    /\ pc = "running"
    /\ trace = StartSteps
    /\ connected = FALSE
    /\ connection_log = <<>>
    /\ exposures = <<Exposure(GA(1, 2, 6))>>
    /\ service_exposures = [a \in {GA(1, 2, 5)} |-> Exposure(a)]
    /\ devices = EntityDevices \cup {Exposure(GA(1, 2, 6)).device,
                                      Exposure(GA(1, 2, 5)).device}
    /\ refreshed = <<>>
    /\ config_store = [e \in {"switch.a"} |-> StoredConfig]
    /\ NoMessages
    /\ NoEntities

NextConnection ==
    \/ \E state \in ConnectionStates :
           Len(connection_log) < MaxReports /\ ConnectionStateChanged(state)
    \/ \E device \in EntityDevices, command \in {"turn_on", "turn_off", "press"} :
           Len(commands) < MaxCommands /\ EntityCommand(device, command)

SpecConnection == InitConnection /\ [][NextConnection]_vars

\* ---- the entities under add, restore, telegrams and remove

\* A hook has bound its device and has not yet restored the state.
MidHook(list) == \E i \in 1 .. Len(list) : list[i].hook = "bound"

\* Another task can have a turn of the event loop: no hook is between its
\* bind and its restore, or the hook has given up the loop there.
LoopFree(list) == MidHook(list) => HookAwaits \cap SuspensionPoints # {}

\* The values a telegram can give the device of an entity.
BusValues(kind) ==
    IF kind \in {"Switch", "BinarySensor"}
    THEN {DeviceValue("bool", "True"), DeviceValue("bool", "False")}
    ELSE IF kind = "Text" THEN {DeviceValue("str", "bus")}
    ELSE IF kind = "Date" THEN {DeviceValue("XKNXDate", "2024-02-29")}
    ELSE {DeviceValue("bytes", "01")}

\* A platform is given an entity object and the host calls its
\* async_added_to_hass, which gets to _Knx2EntityBase.async_added_to_hass:
\* the callback is registered and the device is added to xknx.devices.
AddEntity(e) ==
    /\ KNX2_MODULE_KEY \in hass_data
    /\ LoopFree(entities)
    /\ \A i \in 1 .. Len(entities) :
           entities[i].unique_id = e.unique_id => entities[i].platform_state = "removed"
    /\ entities' = Platform(entities, [e EXCEPT !.hook = "bound", !.callback = TRUE,
                                                !.in_devices = TRUE])
    /\ devices' = (devices \ DevicesOf(entities)) \cup DevicesOf(entities')
    /\ UNCHANGED <<registry_vars, event_vars, last_call, telegrams, hass_data, pc,
                   trace, connected, connection_log, refreshed, store_vars, ws_vars,
                   history, entry_state, platform_calls>>

\* The rest of the subclass's async_added_to_hass: the last state is read
\* and the value of the device is seeded from it; then the host marks the
\* entity added.  When the hook raises, the host logs the error and the
\* entity is not added; nothing undoes what the hook has done.
RestoreState(i) ==
    /\ i \in 1 .. Len(entities)
    /\ entities[i].hook = "bound"
    /\ LET seed == restore_last_state(entities[i])
       IN  entities' = [entities EXCEPT ![i] =
               IF seed.type = "ValueError"
               THEN [@ EXCEPT !.hook = "raised", !.platform_state = "failed"]
               ELSE [@ EXCEPT !.hook = "done", !.platform_state = "added",
                              !.value = seed]]
    /\ UNCHANGED <<registry_vars, event_vars, last_call, telegrams, module_vars,
                   store_vars, ws_vars, history, entry_state, platform_calls>>

\* The telegram queue hands a group value write (one received from the bus,
\* or the one a command of the entity has sent) to the devices of
\* xknx.devices: the device of entity i takes its value.
DeviceProcess(i, value) ==
    /\ i \in 1 .. Len(entities)
    /\ LoopFree(entities)
    /\ entities[i].in_devices
    /\ entities' = [entities EXCEPT ![i].value = value, ![i].received = TRUE]
    /\ UNCHANGED <<registry_vars, event_vars, last_call, telegrams, module_vars,
                   store_vars, ws_vars, history, entry_state, platform_calls>>

\* The host removes an added entity: async_will_remove_from_hass
\* unregisters the callback and takes the device out of xknx.devices.
RemoveEntity(i) ==
    /\ i \in 1 .. Len(entities)
    /\ LoopFree(entities)
    /\ entities[i].platform_state = "added"
    /\ entities' = [entities EXCEPT ![i].platform_state = "removed",
                                    ![i].callback = FALSE, ![i].in_devices = FALSE]
    /\ devices' = (devices \ DevicesOf(entities)) \cup DevicesOf(entities')
    /\ UNCHANGED <<registry_vars, event_vars, last_call, telegrams, hass_data, pc,
                   trace, connected, connection_log, refreshed, store_vars, ws_vars,
                   history, entry_state, platform_calls>>

\* The entity objects of the YAML platforms: the n-th of a run has the
\* address 1/4/n, and its unique id is the text of that address.
YamlEntities(n) ==
    UNION {{NewEntity("1/4/" \o ToString(n), kind, GA(1, 4, n), readable,
                      last_state, "None") :
                readable \in BOOLEAN, last_state \in LastStates(kind)} :
           kind \in RestoreKinds \cup {"RawValue"}}

\* The loaded module before a platform has added an entity.
InitRestore ==
    /\ SetUp
    /\ NoMessages
    /\ NoEntities
    /\ address_filters = <<>>
    /\ address_filter_transcoder = <<>>
    /\ group_addresses = <<>>
    /\ group_address_transcoder = <<>>
    /\ events = <<>>
    /\ delivered = <<>>
    /\ attempts = <<>>
    /\ raised = <<>>
    /\ last_call = NoCallYet
    /\ telegrams = <<>>

NextRestore ==
    \/ \E n \in 1 .. MaxEntities : \E e \in YamlEntities(n) : AddEntity(e)
    \/ \E i \in 1 .. Len(entities) : RestoreState(i)
    \/ \E i \in 1 .. Len(entities) :
           \E value \in BusValues(entities[i].kind) : DeviceProcess(i, value)
    \/ \E i \in 1 .. Len(entities) : RemoveEntity(i)

SpecRestore == InitRestore /\ [][NextRestore]_vars

\* ------------------------------------------------------------------ vocabulary of the claims

\* The telegram is a group value write or response with a non-null value
\* whose destination is a group address or an internal group address.
IsEligible(t) ==
    /\ t.payload.apci = "GroupValueWrite" \/ t.payload.apci = "GroupValueResponse"
    /\ t.payload.value.kind \in {"DPTArray", "DPTBinary"}
    /\ t.destination_address.kind = "GroupAddress"
           \/ t.destination_address.kind = "InternalGroupAddress"

\* The typed address filters matching a destination, as positions of
\* _address_filter_transcoder.
MatchingFilters(dest) ==
    {k \in 1 .. Len(address_filter_transcoder) :
        FilterMatch(address_filter_transcoder[k].filter, dest)}

\* The transcoder of the matching typed filter that was registered first
\* (the filter built first has the least identity).
FirstRegistered(dest) ==
    LET k == CHOOSE m \in MatchingFilters(dest) :
                 \A n \in MatchingFilters(dest) :
                     address_filter_transcoder[m].filter.id
                         <= address_filter_transcoder[n].filter.id
    IN  address_filter_transcoder[k].transcoder

HasExactBinding(dest) == dest \in DOMAIN group_address_transcoder

\* Exact binding, else first registered matching filter, else none.
SelectedFor(dest) ==
    IF HasExactBinding(dest) THEN group_address_transcoder[dest]
    ELSE IF MatchingFilters(dest) = {} THEN "None"
    ELSE FirstRegistered(dest)

Deliveries == 1 .. Len(delivered)

\* Every delivery so far returned normally and fired one event.
OneEventEach == Len(events) = Len(delivered) /\ \A i \in Deliveries : ~raised[i]

\* ------------------------------------------------------------------ claims

\* C1: an eligible telegram whose destination has an exact transcoder binding
\* and also matches a typed filter bound to a different transcoder is decoded
\* with the transcoder of the exact binding, and with no other.
C1_ExactBindingWins ==
    \A i \in Deliveries :
        LET t == delivered[i]
            dest == t.destination_address
        IN  ( /\ IsEligible(t)
              /\ HasExactBinding(dest)
              /\ \E k \in MatchingFilters(dest) :
                     address_filter_transcoder[k].transcoder
                         # group_address_transcoder[dest] )
            => /\ attempts[i] = <<group_address_transcoder[dest]>>
               /\ OneEventEach
               /\ events[i].value
                      = from_knx(group_address_transcoder[dest], t.payload.value).value

\* C1 witness: such a telegram was delivered and the exact transcoder decoded it.
C1_Witness ==
    \E i \in Deliveries :
        LET t == delivered[i]
            dest == t.destination_address
        IN  /\ IsEligible(t)
            /\ HasExactBinding(dest)
            /\ \E k \in MatchingFilters(dest) :
                   address_filter_transcoder[k].transcoder
                       # group_address_transcoder[dest]
            /\ FirstRegistered(dest) # group_address_transcoder[dest]
            /\ attempts[i] = <<group_address_transcoder[dest]>>
            /\ Len(events) = Len(delivered)
            /\ events[i].value # None

\* C2: when the selected transcoder fails to decode the payload, the callback
\* does not raise and fires one event with a null value and the raw payload
\* as data.
C2_DecodeFailureIsNull ==
    \A i \in Deliveries :
        LET t == delivered[i]
            transcoder == SelectedFor(t.destination_address)
        IN  ( /\ IsEligible(t)
              /\ transcoder # "None"
              /\ from_knx(transcoder, t.payload.value).error # "None" )
            => /\ ~raised[i]
               /\ Len(events) = Len(delivered)
               /\ events[i].value = None
               /\ events[i].data = RawValue(t.payload.value)

\* C2 witness: a delivered telegram whose decoding raised ConversionError.
C2_Witness ==
    \E i \in Deliveries :
        LET t == delivered[i]
            transcoder == SelectedFor(t.destination_address)
        IN  /\ IsEligible(t)
            /\ transcoder # "None"
            /\ from_knx(transcoder, t.payload.value).error = "ConversionError"
            /\ attempts[i] = <<transcoder>>
            /\ ~raised[i]
            /\ Len(events) = Len(delivered)
            /\ events[i].value = None

\* C3: a telegram that is not eligible (read request, null value, destination
\* that is no group address) is not decoded, and its event has a null value
\* and null data, whatever decoders are registered.
C3_OnlyEligibleDecoded ==
    \A i \in Deliveries :
        ~IsEligible(delivered[i])
            => /\ attempts[i] = <<>>
               /\ OneEventEach
               /\ events[i].value = None
               /\ events[i].data = None

\* C3 witness: a write with a value to an individual address was delivered
\* while a typed filter and an exact binding were registered.
C3_Witness ==
    \E i \in Deliveries :
        /\ delivered[i].destination_address.kind = "IndividualAddress"
        /\ delivered[i].payload.apci = "GroupValueWrite"
        /\ delivered[i].payload.value # NoPayloadValue
        /\ address_filter_transcoder # <<>>
        /\ DOMAIN group_address_transcoder # {}
        /\ Len(events) = Len(delivered)
        /\ events[i].data = None

\* C4: an eligible telegram whose destination has no exact binding and
\* matches no typed filter is not decoded: null value, raw payload as data.
C4_NoMatchRawOnly ==
    \A i \in Deliveries :
        LET t == delivered[i]
            dest == t.destination_address
        IN  ( /\ IsEligible(t)
              /\ ~HasExactBinding(dest)
              /\ MatchingFilters(dest) = {} )
            => /\ attempts[i] = <<>>
               /\ OneEventEach
               /\ events[i].value = None
               /\ events[i].data = RawValue(t.payload.value)

\* C4 witness: such a telegram was delivered while typed filters that do not
\* match it were registered.
C4_Witness ==
    \E i \in Deliveries :
        LET t == delivered[i]
            dest == t.destination_address
        IN  /\ IsEligible(t)
            /\ ~HasExactBinding(dest)
            /\ MatchingFilters(dest) = {}
            /\ address_filter_transcoder # <<>>
            /\ Len(events) = Len(delivered)
            /\ events[i].data = RawValue(t.payload.value)

\* C5: without an exact binding, when two or more typed filters match the
\* destination, the transcoder used is that of the filter registered first.
C5_FirstRegisteredFilterWins ==
    \A i \in Deliveries :
        LET t == delivered[i]
            dest == t.destination_address
        IN  ( /\ IsEligible(t)
              /\ ~HasExactBinding(dest)
              /\ Cardinality(MatchingFilters(dest)) >= 2 )
            => attempts[i] = <<FirstRegistered(dest)>>

\* C5 witness: two matching filters with different transcoders, the first
\* registered one decoded the telegram.
C5_Witness ==
    \E i \in Deliveries :
        LET t == delivered[i]
            dest == t.destination_address
        IN  /\ IsEligible(t)
            /\ ~HasExactBinding(dest)
            /\ \E m, n \in MatchingFilters(dest) :
                   address_filter_transcoder[m].transcoder
                       # address_filter_transcoder[n].transcoder
            /\ attempts[i] = <<FirstRegistered(dest)>>
            /\ FirstRegistered(dest) = "DPTDate"

\* C6: at most one decode attempt is made per telegram, with the selected
\* transcoder; when it fails no other transcoder is tried.
C6_AtMostOneAttempt ==
    \A i \in Deliveries :
        /\ Len(attempts[i]) <= 1
        /\ attempts[i] # <<>>
               => attempts[i][1] = SelectedFor(delivered[i].destination_address)

\* C6 witness: the one attempt failed although another matching filter had a
\* transcoder that decodes the payload.
C6_Witness ==
    \E i \in Deliveries :
        LET t == delivered[i]
            dest == t.destination_address
        IN  /\ IsEligible(t)
            /\ Len(attempts[i]) = 1
            /\ from_knx(attempts[i][1], t.payload.value).error # "None"
            /\ \E k \in MatchingFilters(dest) :
                   from_knx(address_filter_transcoder[k].transcoder,
                            t.payload.value).error = "None"

\* The event of a telegram, from the registry it was delivered in: null data
\* and value unless eligible, the raw payload as data, the value the selected
\* transcoder decodes or null.
ExpectedEvent(t) ==
    LET transcoder == SelectedFor(t.destination_address)
    IN  [data |-> IF IsEligible(t) THEN RawValue(t.payload.value) ELSE None,
         destination |-> t.destination_address,
         direction |-> t.direction,
         value |-> IF IsEligible(t) /\ transcoder # "None"
                   THEN from_knx(transcoder, t.payload.value).value
                   ELSE None,
         source |-> t.source_address,
         telegramtype |-> t.payload.apci]

\* C7: every invocation of telegram_received_cb fires exactly one event, and
\* the events fired are, in order, the events of the telegrams delivered.
C7_EventsInDeliveryOrder ==
    /\ Len(events) = Len(delivered)
    /\ \A i \in Deliveries : ~raised[i] /\ events[i] = ExpectedEvent(delivered[i])

\* C7 witness: two different telegrams were delivered, each with its event.
C7_Witness ==
    /\ Len(delivered) = 2
    /\ Len(events) = 2
    /\ delivered[1].destination_address # delivered[2].destination_address
    /\ events[1].destination = delivered[1].destination_address
    /\ events[2].destination = delivered[2].destination_address
    /\ events[1].value # None
    /\ events[2].data # None

CallAddresses == Range(last_call.call.address)

Subscribed(a) == \E i \in 1 .. Len(group_addresses) : group_addresses[i] = a

\* C8: after an event_register call with remove = true none of its addresses
\* is subscribed and none has an exact transcoder binding, also when an
\* address was not subscribed before the call.
C8_RemoveLeavesNothing ==
    (last_call.call.service = "event_register" /\ last_call.call.remove)
        => \A a \in CallAddresses :
               ~Subscribed(a) /\ a \notin DOMAIN group_address_transcoder

\* C8 witness: a remove call that found one of its addresses not subscribed
\* and logged a warning, while another address stays subscribed and bound.
C8_Witness ==
    /\ last_call.call.service = "event_register"
    /\ last_call.call.remove
    /\ last_call.warnings > 0
    /\ \A a \in CallAddresses : ~Subscribed(a)
    /\ DOMAIN group_address_transcoder # {}

\* C9: the registry a telegram can observe never holds a part of an
\* event_register call: every exact binding belongs to a subscribed address,
\* after an add with a type every address of the call is subscribed and bound
\* to the transcoder of that type, after an add without type every address is
\* subscribed, and after a remove no address of the call is left.
C9_CallsAreAtomic ==
    /\ \A a \in DOMAIN group_address_transcoder : Subscribed(a)
    /\ (last_call.call.service = "event_register" /\ ~last_call.call.remove)
           => \A a \in CallAddresses :
                  /\ Subscribed(a)
                  /\ last_call.call.type # "None"
                         => /\ a \in DOMAIN group_address_transcoder
                            /\ group_address_transcoder[a]
                                   = parse_transcoder(last_call.call.type)
    /\ (last_call.call.service = "event_register" /\ last_call.call.remove)
           => \A a \in CallAddresses :
                  a \notin DOMAIN group_address_transcoder /\ ~Subscribed(a)

\* C9 witness: an add with a type for two addresses, one of which was
\* subscribed before, has bound and subscribed both.
C9_Witness ==
    /\ last_call.call.service = "event_register"
    /\ ~last_call.call.remove
    /\ last_call.call.type = "date"
    /\ Cardinality(CallAddresses) = 2
    /\ Len(group_addresses) = 2
    /\ group_addresses[1] = last_call.call.address[2]
    /\ \A a \in CallAddresses : group_address_transcoder[a] = "DPTDate"

\* C10: in a send call without type an integer payload is sent as a DPTBinary
\* holding that integer and never as a DPTArray, and a list of integers is
\* sent as a DPTArray of those bytes.
C10_IntIsBinaryListIsArray ==
    (last_call.call.service = "send" /\ last_call.call.type = "None")
        => /\ last_call.call.payload.type = "list"
                  => /\ last_call.error = "None"
                     /\ Len(telegrams) = Len(last_call.call.address)
           /\ \A i \in 1 .. Len(telegrams) :
                  /\ telegrams[i].payload.value.kind
                         = (IF last_call.call.payload.type = "int"
                            THEN "DPTBinary" ELSE "DPTArray")
                  /\ telegrams[i].payload.value.value = last_call.call.payload.v

\* C10 witness: a call without type and with payload 1 has put a telegram
\* holding DPTBinary(1) on the queue.
C10_Witness ==
    /\ last_call.call.service = "send"
    /\ last_call.call.type = "None"
    /\ last_call.call.payload = IntValue(1)
    /\ last_call.error = "None"
    /\ Len(telegrams) >= 1
    /\ telegrams[1].payload.value = DPTBinary(1)

\* C11: a send call that succeeds with n addresses leaves exactly n telegrams
\* on the outbound queue, the i-th to the i-th address of the list, all with
\* the same encoded payload, each a group value response when the response
\* flag is set and a group value write otherwise.
C11_OneTelegramPerAddress ==
    (last_call.call.service = "send" /\ last_call.error = "None")
        => /\ Len(telegrams) = Len(last_call.call.address)
           /\ \A i \in 1 .. Len(telegrams) :
                  /\ telegrams[i].destination_address = last_call.call.address[i]
                  /\ telegrams[i].source_address = CurrentAddress
                  /\ telegrams[i].payload.apci
                         = (IF last_call.call.response
                            THEN "GroupValueResponse" ELSE "GroupValueWrite")
                  /\ telegrams[i].payload.value = telegrams[1].payload.value
                  /\ telegrams[i].payload.value # NoPayloadValue

\* C11 witness: a response call with type percentU8, value 50 and two
\* different addresses has queued two responses carrying the byte 128.
C11_Witness ==
    /\ last_call.call.service = "send"
    /\ last_call.error = "None"
    /\ last_call.call.response
    /\ last_call.call.type = "percentU8"
    /\ Len(last_call.call.address) = 2
    /\ last_call.call.address[1] # last_call.call.address[2]
    /\ Len(telegrams) = 2
    /\ telegrams[1].destination_address = last_call.call.address[1]
    /\ telegrams[2].destination_address = last_call.call.address[2]
    /\ telegrams[2].payload = GroupValueResponse(DPTArray(<<128>>))

\* C12: a send call whose type names no transcoder, or whose payload the
\* transcoder of the type cannot encode, ends with a validation error raised
\* to the caller and with no telegram on the queue for any of its addresses.
C12_InvalidSendQueuesNothing ==
    ( /\ last_call.call.service = "send"
      /\ last_call.call.type # "None"
      /\ \/ parse_transcoder(last_call.call.type) = "None"
         \/ to_knx(parse_transcoder(last_call.call.type),
                   last_call.call.payload).error # "None" )
        => /\ last_call.error = "ServiceValidationError"
           /\ telegrams = <<>>

\* C12 witness: a call for two addresses with type date and an integer
\* payload, which DPTDate does not encode, ended with the validation error.
C12_Witness ==
    /\ last_call.call.service = "send"
    /\ last_call.call.type = "date"
    /\ Len(last_call.call.address) = 2
    /\ to_knx("DPTDate", last_call.call.payload).error = "ConversionError"
    /\ last_call.error = "ServiceValidationError"
    /\ telegrams = <<>>

\* C13: a read call with n addresses appends exactly n telegrams to the
\* outbound queue, the i-th a group value read to the i-th address of the
\* list, and changes neither the event filters and subscriptions, nor the
\* transcoder bindings, nor the exposures.
C13_ReadQueuesReadsOnly ==
    [][ (last_call' # last_call /\ last_call'.call.service = "read")
            => /\ last_call'.error = "None"
               /\ Len(telegrams') = Len(telegrams) + Len(last_call'.call.address)
               /\ SubSeq(telegrams', 1, Len(telegrams)) = telegrams
               /\ \A i \in 1 .. Len(last_call'.call.address) :
                      LET t == telegrams'[Len(telegrams) + i]
                      IN  /\ t.destination_address = last_call'.call.address[i]
                          /\ t.payload.apci = "GroupValueRead"
                          /\ t.payload.value = NoPayloadValue
               /\ UNCHANGED <<address_filters, address_filter_transcoder,
                              group_addresses, group_address_transcoder,
                              exposures, service_exposures, devices>> ]_vars

\* C13 witness: a read of two different addresses has queued two reads while
\* an address was subscribed and bound and exposures of both kinds existed.
C13_Witness ==
    /\ last_call.call.service = "read"
    /\ Len(last_call.call.address) = 2
    /\ last_call.call.address[1] # last_call.call.address[2]
    /\ Len(telegrams) = 2
    /\ telegrams[2].destination_address = last_call.call.address[2]
    /\ telegrams[2].payload = GroupValueRead
    /\ group_addresses # <<>>
    /\ DOMAIN group_address_transcoder # {}
    /\ exposures # <<>>
    /\ DOMAIN service_exposures # {}

\* The positions of the results and errors sent for a message id.
RepliesTo(id) ==
    {k \in 1 .. Len(ws_replies) :
        ws_replies[k].id = id /\ ws_replies[k].kind \in {"result", "error"}}

\* C15: every websocket message handled has exactly one reply carrying its
\* id, a result or an error, whether the module is not loaded, the
\* validation fails, the config store raises ConfigStoreException or the
\* command succeeds.
C15_ExactlyOneReply ==
    \A i \in 1 .. Len(ws_requests) :
        Cardinality(RepliesTo(ws_requests[i].id)) = 1

\* C15 witness: an entity was created and answered with a result, then the
\* same id was created again and answered with one error.
C15_Witness ==
    /\ Len(ws_requests) = 2
    /\ ws_requests[1].type = "knx2/create_entity"
    /\ ws_requests[2] = [ws_requests[1] EXCEPT !.id = 2]
    /\ Len(ws_replies) = 2
    /\ ws_replies[1] = send_result(1, "success")
    /\ ws_replies[2] = send_error(2, "home_assistant_error")
    /\ DOMAIN config_store = {ws_requests[1].entity_id}

\* The telegram events sent to a subscription, in the order they were sent.
EventsFor(id, log) ==
    LET IsEventFor(m) == m.kind = "event" /\ m.id = id
    IN  SelectSeq(log, IsEventFor)

\* The ids of the subscribe messages handled.
SubscribeIds(requests) ==
    {requests[k].id : k \in {j \in 1 .. Len(requests) :
                                requests[j].type = "knx2/subscribe_telegrams"}}

\* The client has subscribed with this id and has not unsubscribed since.
IsSubscribed(id, requests) ==
    /\ id \in SubscribeIds(requests)
    /\ ~\E k \in 1 .. Len(requests) :
            requests[k].type = "unsubscribe_events" /\ requests[k].subscription = id

\* C16: a telegram sent on the signal is forwarded once to every
\* subscription that is subscribed at that moment, after the events sent to
\* it before; no other step sends a telegram event, so a subscriber gets no
\* event from before its subscription and none after it unsubscribed.
C16_LiveFeedOnly ==
    [][ \A id \in SubscribeIds(ws_requests') :
            EventsFor(id, ws_replies')
                = EventsFor(id, ws_replies)
                      \o (IF dispatched' # dispatched /\ IsSubscribed(id, ws_requests)
                          THEN <<send_event(id, dispatched'[Len(dispatched')])>>
                          ELSE <<>>) ]_vars

\* C16 witness: of three telegrams the subscriber got the second only: it
\* subscribed after the first and unsubscribed before the third.
C16_Witness ==
    /\ Len(dispatched) = 3
    /\ \E id \in SubscribeIds(ws_requests) :
           /\ ~IsSubscribed(id, ws_requests)
           /\ EventsFor(id, ws_replies) = <<send_event(id, TelegramDict(2))>>

\* start() of the module has finished.
Started == Contains(trace, "xknx.start")

\* The module has been stopped: stop() has returned.
Stopped == Contains(trace, "xknx.stop") /\ Contains(trace, "save_history")

\* C14: a service call or a websocket command that needs the module, made when
\* the module has not finished starting or has been stopped, ends with the not
\* loaded error and changes nothing: no telegram is queued, no registry and no
\* exposure is changed.
C14_NotLoadedUnlessUp ==
    [][ (~(Started /\ ~Stopped))
            => /\ last_call' # last_call
                      => /\ last_call'.error = "HomeAssistantError"
                         /\ UNCHANGED <<telegrams, registry_vars, store_vars>>
               /\ ws_requests' # ws_requests
                      => /\ ws_replies'
                               = Append(ws_replies,
                                        send_error(ws_requests'[Len(ws_requests')].id,
                                                   "KNX2 integration not loaded."))
                         /\ UNCHANGED <<telegrams, registry_vars, store_vars>> ]_vars

\* C17: whenever xknx.stop() has been called on a module, the telegram history
\* was saved before it and no device is left in xknx.devices.
C17_UnboundAndSavedBeforeStop ==
    \A i \in 1 .. Len(trace) :
        trace[i] = "xknx.stop"
            => /\ devices = {}
               /\ \E j \in 1 .. i - 1 : trace[j] = "save_history"

\* The connection state reported last is CONNECTED.
LastReportedConnected ==
    connection_log # <<>> /\ connection_log[Len(connection_log)] = "CONNECTED"

\* C18: the entities are available exactly when the connection state
\* reported last is CONNECTED; before any report they are unavailable.
C18_AvailableIffConnected == available <=> LastReportedConnected

\* C18 witness: the connection was CONNECTED and is now CONNECTING; the
\* entities, whose devices are in xknx.devices, are unavailable again.
C18_Witness ==
    /\ connection_log = <<"CONNECTED", "CONNECTING">>
    /\ EntityDevices \subseteq devices
    /\ ~available

\* C19: while the state reported last is not CONNECTED, a command handled by
\* an entity puts no telegram on the outbound queue and changes no device.
C19_NoCommandWhileDisconnected ==
    [][ (commands' # commands /\ connection_log # <<>> /\ ~LastReportedConnected)
            => UNCHANGED <<telegrams, devices, refreshed>> ]_vars

\* C20: a report of a connection state changes the connected flag and calls
\* after_update() on the devices, and leaves everything else as it was: the
\* devices, the event filters and subscriptions, the transcoder bindings,
\* the exposures and the config store.
C20_ConnectionChangeFrame ==
    [][ connection_log' # connection_log
            => /\ connected' = (connection_log'[Len(connection_log')] = "CONNECTED")
               /\ refreshed' = Append(refreshed, devices)
               /\ UNCHANGED <<devices, address_filters, address_filter_transcoder,
                              group_addresses, group_address_transcoder, exposures,
                              service_exposures, config_store, telegrams, hass_data,
                              events>> ]_vars

\* C20 witness: the connection was lost after it was established; every
\* device was refreshed both times and the registries are as they were set up.
C20_Witness ==
    /\ connection_log = <<"CONNECTED", "DISCONNECTED">>
    /\ ~connected
    /\ refreshed = <<devices, devices>>
    /\ devices # {}
    /\ group_addresses = <<GA(1, 2, 5)>>
    /\ DOMAIN group_address_transcoder = {GA(1, 2, 5)}
    /\ exposures # <<>>
    /\ DOMAIN service_exposures # {}
    /\ DOMAIN config_store # {}

\* ---- the restore of the state of an entity

\* The hook of an entity has returned or raised.
HookOver(e) == e.hook \in {"done", "raised"}

\* The entity is of a class that restores its state only when the state
\* address of its device cannot be read, and a last state is persisted.
RestoresUnread(e) ==
    /\ e.kind \in {"Switch", "Text", "Date"}
    /\ ~e.readable
    /\ e.last_state # "None"

\* The value a persisted state stands for: on / off for a switch, the text
\* for a text, the date for a date.
SeedOf(e) ==
    IF e.kind = "Switch"
    THEN DeviceValue("bool", IF e.last_state = "on" THEN "True" ELSE "False")
    ELSE IF e.kind = "Text" THEN DeviceValue("str", e.last_state)
    ELSE DeviceValue("XKNXDate", e.last_state)

\* The persisted state holds a value: it is not the unknown or unavailable
\* state and, for a date, it is the text of a day of the calendar.
HoldsValue(e) ==
    /\ e.last_state \notin {"unknown", "unavailable"}
    /\ e.kind = "Date" => e.last_state = "2024-02-29"

C29_BoundIffAdded ==
    \A i \in 1 .. Len(entities) :
        entities[i].hook # "bound"
            => /\ entities[i].in_devices <=> entities[i].platform_state = "added"
               /\ entities[i].callback <=> entities[i].platform_state = "added"

\* ---- the config store and its entities

\* The step handles a new websocket message of the given type.
Handles(type) ==
    /\ Len(ws_requests') = Len(ws_requests) + 1
    /\ ws_requests'[Len(ws_requests')].type = type

\* The message the step handles, and the replies the step sends.
Handled_msg == ws_requests'[Len(ws_requests')]

SentReplies == SubSeq(ws_replies', Len(ws_replies) + 1, Len(ws_replies'))

\* The entity objects that are bound under a unique id: the device is in
\* xknx.devices or the callback is registered.
BoundUnder(list, unique_id) ==
    {i \in 1 .. Len(list) :
         list[i].unique_id = unique_id /\ (list[i].in_devices \/ list[i].callback)}

\* The items a configuration has after the defaults of the schema were
\* applied to data: those of data, and invert = False when data has none.
IsDataWithDefaults(config, data) ==
    /\ data \subseteq config
    /\ \A item \in config \ data :
           item = <<"invert", "False">> /\ ~\E other \in data : other[1] = "invert"

\* C23: an update that succeeds first removes the entity of the unique id
\* and then adds a new one; never are two entity objects of one unique id
\* bound, and after the update exactly one is, added and with the new
\* configuration.
C23_UpdateReinstantiates ==
    [][ /\ \A i \in 1 .. Len(entities') :
               Cardinality(BoundUnder(entities', entities'[i].unique_id)) <= 1
        /\ (Handles("knx2/update_entity") /\ SentReplies = <<send_result(Handled_msg.id, "success")>>)
               => LET unique_id == "knx_es_" \o Handled_msg.entity_id
                  IN  /\ platform_calls' = <<[op |-> "async_remove_entity", unique_id |-> unique_id],
                                             [op |-> "async_add_entities", unique_id |-> unique_id]>>
                      /\ Cardinality(BoundUnder(entities', unique_id)) = 1
                      /\ \A i \in BoundUnder(entities', unique_id) :
                             /\ entities'[i].platform_state = "added"
                             /\ entities'[i].in_devices /\ entities'[i].callback
                             /\ IsDataWithDefaults(entities'[i].config, Handled_msg.data) ]_vars

\* C23 witness: the entity switch.a, stored with the address 1/4/1, was
\* updated to 1/4/2 and one entity with the new address is bound.
C23_Witness ==
    /\ Len(ws_requests) = 1
    /\ ws_requests[1].type = "knx2/update_entity"
    /\ ws_requests[1].entity_id = "switch.a"
    /\ ws_replies = <<send_result(1, "success")>>
    /\ Len(platform_calls) = 2
    /\ \E i \in 1 .. Len(entities) :
           /\ entities[i].in_devices
           /\ entities[i].address = GA(1, 4, 2)
           /\ <<"ga_switch", "1/4/2">> \in entities[i].config
    /\ ~\E i \in 1 .. Len(entities) :
           entities[i].in_devices /\ entities[i].address = GA(1, 4, 1)

C25_DeleteOfMissingFails ==
    [][ Handles("knx2/delete_entity")
            => IF Handled_msg.entity_id \in DOMAIN config_store
               THEN /\ SentReplies = <<send_result(Handled_msg.id, "ok")>>
                    /\ DOMAIN config_store' = DOMAIN config_store \ {Handled_msg.entity_id}
               ELSE /\ SentReplies = <<send_error(Handled_msg.id, "home_assistant_error")>>
                    /\ UNCHANGED <<config_store, entities, devices>> ]_vars

\* C25 witness: switch.a was deleted twice; the first delete was answered
\* with a result, the second with an error.
C25_Witness ==
    /\ Len(ws_requests) = 2
    /\ ws_requests[1].type = "knx2/delete_entity"
    /\ ws_requests[2].type = "knx2/delete_entity"
    /\ ws_requests[1].entity_id = ws_requests[2].entity_id
    /\ ws_replies = <<send_result(1, "ok"), send_error(2, "home_assistant_error")>>
    /\ DOMAIN config_store = {}

LastOf(seq, n) ==
    IF Len(seq) <= n THEN seq ELSE SubSeq(seq, Len(seq) - n + 1, Len(seq))

\* C27: the capacity of the history is the log_size it was built with and
\* does not change; after every append the recent telegrams are the last
\* log_size of all the telegrams appended, oldest first, and that list is
\* what a query of the recent telegrams is answered with.
C27_HistoryIsRing ==
    [][ /\ history'.log_size = history.log_size
        /\ Len(history'.recent) <= history.log_size
        /\ history'.recent = LastOf(dispatched', history.log_size)
        /\ Handles("knx2/group_monitor_info")
               => /\ Len(SentReplies) = 1
                  /\ SentReplies[1].data = LastOf(dispatched, history.log_size) ]_vars

\* C27 witness: a history of capacity 2 was appended to three times and a
\* query was then answered with the second and the third telegram.
C27_Witness ==
    /\ history.log_size = 2
    /\ Len(dispatched) = 3
    /\ history.recent = <<dispatched[2], dispatched[3]>>
    /\ dispatched[2] # dispatched[3]
    /\ \E i \in 1 .. Len(ws_replies) :
           /\ ws_replies[i].kind = "result"
           /\ ws_replies[i].message = "group_monitor_info"
           /\ ws_replies[i].data = <<dispatched[2], dispatched[3]>>

\* ---- a start that fails, and the order of start and stop

\* The step ends async_setup_entry by an exception of start().
StartAborted == pc = "start" /\ pc' = "idle"

\* The host sets an entry up again by itself when its setup has ended with
\* ConfigEntryNotReady.
RetriedByHost(result) == result = "ConfigEntryNotReady"

\* The step publishes no module, creates no exposure, forwards no platform
\* and registers no panel.
SetsNothingUp ==
    /\ KNX2_MODULE_KEY \notin hass_data'
    /\ exposures' = <<>>
    /\ devices' = {}
    /\ ~entry_state'.forwarded
    /\ entry_state'.panel = entry_state.panel

\* C28 as stated: an exception raised while the module starts ends the
\* setup for good, the host does not set the entry up again by itself, and
\* nothing was set up.
C28_StartFailureIsFatal ==
    [][ StartAborted => ~RetriedByHost(entry_state'.result) /\ SetsNothingUp ]_vars

\* C28 amended: an exception raised while the module starts ends the setup
\* with nothing set up; the setup ends with ConfigEntryNotReady, on which
\* the host retries, or with the exception itself, on which it does not.
C28_StartFailureSetsNothingUp ==
    [][ StartAborted
            => /\ entry_state'.result \in {"ConfigEntryNotReady", "Exception"}
               /\ SetsNothingUp ]_vars

\* C28 witness: xknx.start() has raised after the three loads, the setup
\* has ended with ConfigEntryNotReady and no module is published.
C28_Witness ==
    /\ pc = "idle"
    /\ trace = <<"load_project", "load_data", "load_history">>
    /\ entry_state.result = "ConfigEntryNotReady"
    /\ KNX2_MODULE_KEY \notin hass_data
    /\ ~entry_state.forwarded /\ ~entry_state.panel

C31_RegistryWellFormed ==
    /\ \A i, j \in 1 .. Len(group_addresses) :
           group_addresses[i] = group_addresses[j] => i = j
    /\ \A address \in DOMAIN group_address_transcoder :
           \E i \in 1 .. Len(group_addresses) : group_addresses[i] = address

\* C31 witness: a call that names one address twice, with a type, was made
\* on a registry that held the address already; the address is subscribed
\* once and bound.
C31_Witness ==
    /\ last_call.error = "None"
    /\ last_call.call.service = "event_register"
    /\ ~last_call.call.remove
    /\ last_call.call.type # "None"
    /\ Len(last_call.call.address) = 2
    /\ last_call.call.address[1] = last_call.call.address[2]
    /\ Len(group_addresses) = 2
    /\ last_call.call.address[1] = group_addresses[1]
    /\ group_addresses[1] \in DOMAIN group_address_transcoder

\* C32: when the last event_register call subscribed the destination of a
\* telegram that carries a value, the call alone says how the telegram is
\* decoded: with the transcoder of the call's type, which is then the
\* address's binding, or, when the call had no type, not at all, the address
\* having no binding and the event a null value.
C32_LastCallDecidesDecoding ==
    (/\ Len(delivered) = 1
     /\ last_call.error = "None"
     /\ last_call.call.service = "event_register"
     /\ ~last_call.call.remove
     /\ delivered[1].payload.apci \in {"GroupValueWrite", "GroupValueResponse"}
     /\ delivered[1].payload.value # NoPayloadValue
     /\ \E i \in 1 .. Len(last_call.call.address) :
            last_call.call.address[i] = delivered[1].destination_address)
        => IF last_call.call.type = "None"
           THEN /\ delivered[1].destination_address \notin DOMAIN group_address_transcoder
                /\ attempts[1] = <<>>
                /\ events[1].value = None
           ELSE /\ delivered[1].destination_address \in DOMAIN group_address_transcoder
                /\ attempts[1] = <<parse_transcoder(last_call.call.type)>>

\* ------------------------------------------------------------------ service exposure_register

\* The value types of the exposure_register calls: one that has a
\* transcoder, and a string the schema lets through that has none.
ExposeTypes == {"percentU8", "bogus"}

\* The entities whose state the calls expose.
ExposedEntityIds == {"sensor.a", "sensor.b"}

\* call.data of exposure_register after SERVICE_KNX2_EXPOSURE_REGISTER_SCHEMA;
\* a remove call needs the address only.
ExposureCalls ==
    [service : {"exposure_register"}, address : ServiceAddresses, type : ExposeTypes,
     entity_id : ExposedEntityIds, remove : {FALSE}]
    \cup [service : {"exposure_register"}, address : ServiceAddresses,
          type : {"None"}, entity_id : {"None"}, remove : {TRUE}]

\* create_knx2_exposure: the exposure of the entity with its ExposeSensor
\* device, registered; the device cannot be built for a value type that has
\* no transcoder.
create_knx2_exposure(config) ==
    IF parse_transcoder(config.type) = "None"
    THEN [error |-> "ConversionError", exposure |-> Exposure(config.address)]
    ELSE [error |-> "None",
          exposure |-> [address |-> config.address,
                        device |-> [kind |-> "ExposeSensor", address |-> config.address,
                                    name |-> config.entity_id],
                        type |-> config.type]]

\* What one exposure_register call leaves: the registry, the exposures
\* async_remove was called on, the exposures created, the warnings logged
\* and the error raised.
ExposureOutcome(registry, removed, created, warnings, error) ==
    [service_exposures |-> registry, removed |-> removed, created |-> created,
     warnings |-> warnings, error |-> error]

\* Mutant: a replaced exposure is dropped from the registry without
\* async_remove.
service_exposure_register_modify_KeepsReplaced(registry, call) ==
    IF call.remove
    THEN IF call.address \notin DOMAIN registry
         THEN ExposureOutcome(registry, <<>>, <<>>, 0, "ServiceValidationError")
         ELSE ExposureOutcome(DictDel(registry, call.address),
                              <<registry[call.address]>>, <<>>, 0, "None")
    ELSE LET made == create_knx2_exposure(call)
         IN  IF made.error # "None"
             THEN ExposureOutcome(DictDel(registry, call.address), <<>>, <<>>, 0, made.error)
             ELSE ExposureOutcome(DictUpdate(registry, {call.address}, made.exposure),
                                  <<>>, <<made.exposure>>, 0, "None")

\* service_exposure_register_modify.  remove: the exposure of the address is
\* popped and removed, a missing one is a ServiceValidationError.  Otherwise
\* an exposure the address has is popped and removed first, with a warning,
\* and then the new one is created and put into the registry.
service_exposure_register_modify(registry, call) ==
    IF call.remove
    THEN IF call.address \notin DOMAIN registry
         THEN ExposureOutcome(registry, <<>>, <<>>, 0, "ServiceValidationError")
         ELSE ExposureOutcome(DictDel(registry, call.address),
                              <<registry[call.address]>>, <<>>, 0, "None")
    ELSE LET replaces == call.address \in DOMAIN registry
             popped == IF replaces THEN DictDel(registry, call.address) ELSE registry
             removed == IF replaces THEN <<registry[call.address]>> ELSE <<>>
             warnings == IF replaces THEN 1 ELSE 0
             made == create_knx2_exposure(call)
         IN  IF made.error # "None"
             THEN ExposureOutcome(popped, removed, <<>>, warnings, made.error)
             ELSE ExposureOutcome(DictUpdate(popped, {call.address}, made.exposure),
                                  removed, <<made.exposure>>, warnings, "None")

\* One call of the exposure_register service; the handler has no await.
\* async_remove takes the device of an exposure out of xknx.devices, the
\* creation puts the device of the new one in.
ExposureRegister(call) ==
    IF get_knx2_module(hass_data) = "HomeAssistantError" THEN NotLoaded(call)
    ELSE
    /\ LET out == service_exposure_register_modify(service_exposures, call)
       IN  /\ service_exposures' = out.service_exposures
           /\ devices' = (devices \ {x.device : x \in Range(out.removed)})
                             \cup {x.device : x \in Range(out.created)}
           /\ last_call' = [call |-> call, warnings |-> out.warnings,
                            error |-> out.error, removed |-> out.removed]
    /\ UNCHANGED <<registry_vars, event_vars, telegrams, hass_data, pc, trace,
                   connected, connection_log, refreshed, exposures, config_store,
                   ws_vars>>
    /\ UNCHANGED entity_vars

\* ---- the exposures under exposure_register calls and unload

\* The loaded module with or without an exposure of the YAML configuration
\* and with the devices of its entities; no exposure_register call was made.
InitExposure ==
    /\ address_filters = <<>>
    /\ address_filter_transcoder = <<>>
    /\ group_addresses = <<>>
    /\ group_address_transcoder = <<>>
    /\ events = <<>>
    /\ delivered = <<>>
    /\ attempts = <<>>
    /\ raised = <<>>
    /\ last_call = NoCallYet
    /\ telegrams = <<>>
    /\ hass_data = {KNX2_MODULE_KEY}
    /\ pc = "running"
    /\ trace = StartSteps
    /\ connected = FALSE
    /\ connection_log = <<>>
    /\ refreshed = <<>>
    /\ \E yaml \in ExposeConfigs :
           /\ exposures = yaml
           /\ devices = EntityDevices \cup {x.device : x \in Range(yaml)}
    /\ service_exposures = <<>>
    /\ config_store = <<>>
    /\ NoMessages
    /\ NoEntities

NextExposure ==
    \/ \E call \in ExposureCalls : ExposureRegister(call)
    \/ \E unload_ok \in BOOLEAN : UnloadEntry(unload_ok)
    \/ XknxStop
    \/ SaveHistory

SpecExposure == InitExposure /\ [][NextExposure]_vars

\* The step is an exposure_register call that reached its handler.
ExposureCalled ==
    /\ last_call' # last_call \/ service_exposures' # service_exposures
    /\ last_call'.call.service = "exposure_register"
    /\ last_call'.error # "HomeAssistantError"

\* The devices of xknx.devices that exposures of the service have put there.
ServiceExposed(devs) == {d \in devs : "name" \in DOMAIN d}

\* C33: after every exposure_register call the exposures the service has
\* live are those in service_exposures, one for an address; a call that
\* succeeds leaves under its address the exposure it created, and none when
\* it removes; async_remove was called once on the exposure the address had
\* before, and on no other.
C33_OneLiveExposurePerAddress ==
    [][ ExposureCalled
            => LET call == last_call'.call
                   displaced == IF call.address \in DOMAIN service_exposures
                                THEN <<service_exposures[call.address]>> ELSE <<>>
               IN  /\ ServiceExposed(devices')
                          = {service_exposures'[a].device : a \in DOMAIN service_exposures'}
                   /\ \A a \in DOMAIN service_exposures' :
                          service_exposures'[a].address = a
                   /\ last_call'.error = "None"
                          => /\ last_call'.removed = displaced
                             /\ IF call.remove
                                THEN call.address \notin DOMAIN service_exposures'
                                ELSE /\ call.address \in DOMAIN service_exposures'
                                     /\ service_exposures'[call.address].device.name
                                            = call.entity_id
                                     /\ service_exposures'[call.address].type = call.type
                   /\ \A a \in DOMAIN service_exposures \ {call.address} :
                          /\ a \in DOMAIN service_exposures'
                          /\ service_exposures'[a] = service_exposures[a] ]_vars

\* C33 witness: the exposure of sensor.a at 1/2/5 was replaced by one of
\* sensor.b: async_remove was called on the first, the second is the one
\* held and the only one of the address that is live.
C33_Witness ==
    /\ last_call.call.service = "exposure_register"
    /\ last_call.error = "None"
    /\ ~last_call.call.remove
    /\ last_call.call.address = GA(1, 2, 5)
    /\ last_call.call.entity_id = "sensor.b"
    /\ Len(last_call.removed) = 1
    /\ last_call.removed[1].device.name = "sensor.a"
    /\ service_exposures[GA(1, 2, 5)].device.name = "sensor.b"
    /\ last_call.removed[1].device \notin devices
    /\ service_exposures[GA(1, 2, 5)].device \in devices

\* C34: an exposure_register call that ends in an error leaves
\* service_exposures and the devices of the exposures as they were.
C34_FailedCallChangesNothing ==
    [][ (ExposureCalled /\ last_call'.error # "None")
            => /\ service_exposures' = service_exposures
               /\ devices' = devices
               /\ last_call'.removed = <<>> ]_vars

\* C35: after async_unload_entry has returned true no device of an
\* exposure, of the YAML configuration or of the service, is in
\* xknx.devices.
C35_NoExposureLiveAfterUnload ==
    (pc = "idle" /\ KNX2_MODULE_KEY \notin hass_data)
        => {d \in devices : d.kind = "ExposeSensor"} = {}

\* C36: a step of async_unload_entry that leaves the module running, the
\* platforms not having unloaded, leaves the module published, the bus
\* connection as it is and every device of an exposure in xknx.devices.
C36_FailedUnloadKeepsExposures ==
    [][ (pc = "running" /\ pc' = "running" /\ UNCHANGED <<last_call, service_exposures>>)
            => /\ KNX2_MODULE_KEY \in hass_data'
               /\ trace' = trace
               /\ \A i \in 1 .. Len(exposures) : exposures[i].device \in devices' ]_vars

\* ---- which persisted states are adopted

\* The device of the entity holds a value that no telegram has given it:
\* the add hook has adopted the persisted state.
Adopted(e) == HookOver(e) /\ ~e.received /\ e.value # DeviceNone

\* C37 as stated: an entity of any kind adopts a persisted state only when
\* the state address of its device is not readable and the state is neither
\* unknown nor unavailable; otherwise the value stays None, as at the bind.
C37_AdoptedOnlyWhenUnreadable ==
    \A i \in 1 .. Len(entities) :
        Adopted(entities[i])
            => /\ ~entities[i].readable
               /\ entities[i].last_state \notin {"None", "unknown", "unavailable"}

\* C37 amended: a switch, text or date entity adopts a persisted state only
\* when the state address is not readable, a binary sensor whether or not
\* it is; no kind adopts the unknown or the unavailable state, an entity
\* without state restore adopts nothing, and the adopted value is the one
\* the state stands for.
C37_AdoptedAsTheKindRestores ==
    \A i \in 1 .. Len(entities) :
        Adopted(entities[i])
            => /\ entities[i].kind \in {"Switch", "Text", "Date", "BinarySensor"}
               /\ entities[i].kind # "BinarySensor" => ~entities[i].readable
               /\ entities[i].last_state \notin {"None", "unknown", "unavailable"}
               /\ entities[i].value =
                      (IF entities[i].kind = "BinarySensor"
                       THEN DeviceValue("bool", IF entities[i].last_state = "on"
                                                THEN "True" ELSE "False")
                       ELSE SeedOf(entities[i]))

\* C37 witness: a binary sensor with a readable state address was added
\* with the last state "on" and its device holds True before any telegram.
C37_Witness ==
    \E i \in 1 .. Len(entities) :
        /\ entities[i].kind = "BinarySensor"
        /\ entities[i].readable
        /\ entities[i].last_state = "on"
        /\ entities[i].platform_state = "added"
        /\ ~entities[i].received
        /\ entities[i].value = DeviceValue("bool", "True")

\* ------------------------------------------------------------------ the fan

\* Largest max_step of the fans looked at (FanSchema.CONF_MAX_STEP is a
\* byte): one more than there are percentages above 0.  0 is a fan without
\* steps, whose speed is a percentage.
MaxStep == 101

\* DEFAULT_PERCENTAGE of fan.py.
DEFAULT_PERCENTAGE == 50

\* homeassistant.util.percentage: the number of states of a range.
states_in_range(low_high_range) == low_high_range[2] - low_high_range[1] + 1

\* percentage_to_ranged_value: states * percentage / 100 + offset, a true
\* division; the quotient is kept as numerator and denominator.
percentage_to_ranged_value(low_high_range, percentage) ==
    [num |-> states_in_range(low_high_range) * percentage
                 + (low_high_range[1] - 1) * 100,
     den |-> 100]

\* Mutant: the step is rounded down.
math_ceil_Floors(q) == q.num \div q.den

\* math.ceil of a quotient that is not negative.
math_ceil(q) == (q.num + q.den - 1) \div q.den

\* ranged_value_to_percentage: ((value - offset) * 100) // states.
ranged_value_to_percentage(low_high_range, value) ==
    ((value - (low_high_range[1] - 1)) * 100) \div states_in_range(low_high_range)

\* KNX2Fan.__init__: _step_range is (1, max_step) if max_step else None; the
\* device has no current speed; nothing was asked of the fan.
KNX2Fan(max_step) ==
    [kind |-> "Fan", address |-> GA(1, 5, 1),
     step_range |-> IF max_step # 0 THEN <<1, max_step>> ELSE <<>>,
     current_speed |-> <<>>, command |-> "None", percentage_set |-> <<>>,
     set_speed |-> <<>>]

\* KNX2Fan.percentage of a fan whose device has a current speed.
percentage(fan) ==
    IF fan.step_range # <<>>
    THEN ranged_value_to_percentage(fan.step_range, fan.current_speed[1])
    ELSE fan.current_speed[1]

\* KNX2Fan.async_set_percentage: the speed handed to set_speed.
SpeedFor(fan, value) ==
    IF fan.step_range # <<>>
    THEN math_ceil(percentage_to_ranged_value(fan.step_range, value))
    ELSE value

\* The percentages the host asks of a fan: off, the default, all, and the
\* percentage the fan reports itself.
FanPercentages(fan) ==
    {0, DEFAULT_PERCENTAGE, 100}
        \cup (IF fan.current_speed = <<>> THEN {} ELSE {percentage(fan)})

\* The device of the fan takes the speed of a group value write from the
\* bus; one telegram is looked at, before the command.
FanProcess(speed) ==
    /\ Len(entities) = 1
    /\ entities[1].command = "None"
    /\ entities[1].current_speed = <<>>
    /\ speed <= (IF entities[1].step_range = <<>> THEN 100 ELSE entities[1].step_range[2])
    /\ entities' = [entities EXCEPT ![1].current_speed = <<speed>>]
    /\ UNCHANGED <<registry_vars, event_vars, last_call, telegrams, module_vars,
                   store_vars, ws_vars, history, entry_state, platform_calls>>

\* The commands of the fan entity with their argument, <<>> for none:
\* async_set_percentage(percentage), async_turn_on(percentage=None) and
\* async_turn_off().
FanCommands(fan) ==
    {<<"set_percentage", <<p>>>> : p \in FanPercentages(fan)}
        \cup {<<"turn_on", <<p>>>> : p \in FanPercentages(fan)}
        \cup {<<"turn_on", <<>>>>, <<"turn_off", <<>>>>}

\* The percentage async_set_percentage is called with: 0 by async_turn_off,
\* DEFAULT_PERCENTAGE by async_turn_on without a percentage.
PercentageOf(command, argument) ==
    IF command = "turn_off" THEN 0
    ELSE IF argument = <<>> THEN DEFAULT_PERCENTAGE
    ELSE argument[1]

\* A command of the fan entity ends in async_set_percentage: set_speed of
\* the device writes the speed to the bus.
FanCommand(command, argument) ==
    /\ Len(entities) = 1
    /\ entities[1].command = "None"
    /\ LET value == PercentageOf(command, argument)
           speed == SpeedFor(entities[1], value)
       IN  /\ entities' = [entities EXCEPT ![1].command = command,
                                           ![1].percentage_set = <<value>>,
                                           ![1].set_speed = <<speed>>]
           /\ telegrams' = Append(telegrams,
                  Telegram(entities[1].address,
                           GroupValueWrite(
                               IF entities[1].step_range # <<>> THEN DPTArray(<<speed>>)
                               ELSE DPTScaling_to_knx(IntValue(speed)).payload),
                           CurrentAddress, "Outgoing"))
    /\ UNCHANGED <<registry_vars, event_vars, last_call, module_vars, store_vars,
                   ws_vars, history, entry_state, platform_calls>>

\* ---- one command of a fan

\* The loaded module with one fan of any max_step.
InitFan ==
    /\ SetUp
    /\ NoMessages
    /\ address_filters = <<>>
    /\ address_filter_transcoder = <<>>
    /\ group_addresses = <<>>
    /\ group_address_transcoder = <<>>
    /\ events = <<>>
    /\ delivered = <<>>
    /\ attempts = <<>>
    /\ raised = <<>>
    /\ last_call = NoCallYet
    /\ telegrams = <<>>
    /\ \E max_step \in 0 .. MaxStep : entities = <<KNX2Fan(max_step)>>
    /\ history = History(MaxLogSize, <<>>)
    /\ entry_state = EntryOf(hass_data)
    /\ platform_calls = <<>>

NextFan ==
    \/ \E speed \in 0 .. MaxStep : FanProcess(speed)
    \/ \E c \in FanCommands(entities[1]) : FanCommand(c[1], c[2])

SpecFan == InitFan /\ [][NextFan]_vars

\* The fan is in step mode, its device had the speed s when
\* async_set_percentage was called with the percentage the fan reported.
OwnPercentageSet(fan) ==
    /\ fan.step_range # <<>>
    /\ fan.command = "set_percentage"
    /\ fan.current_speed # <<>>
    /\ fan.current_speed[1] >= 1
    /\ fan.percentage_set = <<(100 * fan.current_speed[1]) \div fan.step_range[2]>>

\* C38 as stated: for a fan in step mode with any max_step, the percentage
\* reported for the speed s >= 1, passed to async_set_percentage, sends the
\* step s; turn_off sends the step 0.
C38_PercentageRoundTrip ==
    \A i \in 1 .. Len(entities) :
        /\ OwnPercentageSet(entities[i])
               => entities[i].set_speed = entities[i].current_speed
        /\ (entities[i].step_range # <<>> /\ entities[i].command = "turn_off")
               => entities[i].set_speed = <<0>>

\* C38 amended: the same for a fan whose max_step is at most 100.
C38_PercentageRoundTripUpTo100 ==
    \A i \in 1 .. Len(entities) :
        /\ (OwnPercentageSet(entities[i]) /\ entities[i].step_range[2] <= 100)
               => entities[i].set_speed = entities[i].current_speed
        /\ (entities[i].step_range # <<>> /\ entities[i].command = "turn_off")
               => entities[i].set_speed = <<0>>

\* C38 witness: a fan of three steps at speed 2 reported 66 percent, and
\* async_set_percentage(66) sent the step 2.
C38_Witness ==
    /\ Len(entities) = 1
    /\ entities[1].step_range = <<1, 3>>
    /\ entities[1].current_speed = <<2>>
    /\ entities[1].command = "set_percentage"
    /\ entities[1].percentage_set = <<66>>
    /\ entities[1].set_speed = <<2>>

\* ------------------------------------------------------------------ removing a device

\* The identifier of the interface device (KNX2InterfaceDevice.device_info).
InterfaceIdentifier == "interface"

\* A DeviceEntry of the device registry.
DeviceEntry(id, identifiers) == [id |-> id, identifiers |-> identifiers]

\* The id of the device that has the identifier CONF_DEVICE_INFO names.
DeviceIdOf(identifier) == "id_" \o identifier

\* The devices the host asks to remove: two devices of entities, the
\* interface device, and a device that shares an identifier with it.
DeviceEntries ==
    {DeviceEntry(DeviceIdOf("dev1"), {"dev1"}),
     DeviceEntry(DeviceIdOf("dev2"), {"dev2"}),
     DeviceEntry(DeviceIdOf(InterfaceIdentifier), {InterfaceIdentifier}),
     DeviceEntry(DeviceIdOf("dev1"), {"dev1", InterfaceIdentifier})}

\* config_store.get_entity_entries: the registry entries of the entities in
\* the store, with the device of the configuration, "None" without one.
get_entity_entries(store) ==
    LET ordered == <<"switch.a", "switch.b">>
        entry(e) == [entity_id |-> e,
                     device_id |-> IF "device_info" \in Keys(store[e])
                                   THEN DeviceIdOf(Get(store[e], "device_info"))
                                   ELSE "None"]
    IN  SelectSeq([k \in 1 .. Len(ordered) |->
                      IF ordered[k] \in DOMAIN store THEN entry(ordered[k])
                      ELSE [entity_id |-> ordered[k], device_id |-> "absent"]],
                  LAMBDA x : x.device_id # "absent")

\* The loop of async_remove_config_entry_device over the first n entries:
\* delete_entity of the config store for every entity of the device.
RECURSIVE delete_entities_of_device(_, _, _, _, _)
delete_entities_of_device(store, list, entries, device_id, n) ==
    IF n = 0 THEN [config_store |-> store, entities |-> list, calls |-> <<>>]
    ELSE LET before == delete_entities_of_device(store, list, entries, device_id, n - 1)
             msg == Message(0, "knx2/delete_entity", TRUE, entries[n].entity_id, TRUE)
         IN  IF entries[n].device_id # device_id THEN before
             ELSE LET out == config_store_call(before.config_store, msg)
                      after == controller_call(before.entities, msg, "None")
                  IN  [config_store |-> out.config_store,
                       entities |-> after.entities,
                       calls |-> before.calls \o after.calls]

\* Mutant: the interface device is not told apart.
async_remove_config_entry_device_AnyDevice(store, list, device_entry) ==
    LET entries == get_entity_entries(store)
        done == delete_entities_of_device(store, list, entries, device_entry.id,
                                          Len(entries))
    IN  [result |-> "True", config_store |-> done.config_store,
         entities |-> done.entities, calls |-> done.calls]

\* async_remove_config_entry_device: False for a device that has an
\* identifier of the interface device; else the entities of the device are
\* deleted from the config store and the result is True.
async_remove_config_entry_device(store, list, device_entry) ==
    IF device_entry.identifiers \cap {InterfaceIdentifier} # {}
    THEN [result |-> "False", config_store |-> store, entities |-> list,
          calls |-> <<>>]
    ELSE LET entries == get_entity_entries(store)
             done == delete_entities_of_device(store, list, entries, device_entry.id,
                                               Len(entries))
         IN  [result |-> "True", config_store |-> done.config_store,
              entities |-> done.entities, calls |-> done.calls]

\* The host asks the integration whether a device can be removed.
RemoveConfigEntryDevice(device_entry) ==
    /\ KNX2_MODULE_KEY \in hass_data
    /\ LET out == async_remove_config_entry_device(config_store, entities, device_entry)
       IN  /\ config_store' = out.config_store
           /\ entities' = out.entities
           /\ platform_calls' = out.calls
           /\ devices' = (devices \ DevicesOf(entities)) \cup DevicesOf(out.entities)
           /\ last_call' = [call |-> [service |-> "async_remove_config_entry_device",
                                      device |-> device_entry],
                            warnings |-> 0, error |-> "None", result |-> out.result]
    /\ UNCHANGED <<registry_vars, event_vars, telegrams, hass_data, pc, trace,
                   connected, connection_log, refreshed, exposures, service_exposures,
                   ws_vars, history, entry_state>>

\* ---- the config store when devices are removed

\* The configuration of a stored switch: its address and, with a device,
\* the identifier of the device.
DeviceConfig(address, device) ==
    validate_entity_data({<<"ga_switch", address>>}
                             \cup (IF device = "None" THEN {}
                                   ELSE {<<"device_info", device>>})).data

\* The stores load_data() can have loaded: each of the two switches is
\* absent, without device, or of one of two devices.
DeviceStores ==
    {[e \in ids |-> DeviceConfig(IF e = "switch.a" THEN "1/4/1" ELSE "1/4/2", of[e])] :
         ids \in SUBSET EntityIds, of \in [EntityIds -> {"None", "dev1", "dev2"}]}

\* The entity objects the switch platform has added for a store.
RECURSIVE EntitiesOfStore(_, _)
EntitiesOfStore(store, entries) ==
    IF entries = <<>> THEN <<>>
    ELSE Append(EntitiesOfStore(store, SubSeq(entries, 1, Len(entries) - 1)),
                async_added_to_hass(
                    Knx2UiSwitch(UniqueIdOf(entries[Len(entries)].entity_id),
                                 store[entries[Len(entries)].entity_id], "None")))

InitDevice ==
    /\ address_filters = <<>>
    /\ address_filter_transcoder = <<>>
    /\ group_addresses = <<>>
    /\ group_address_transcoder = <<>>
    /\ events = <<>>
    /\ delivered = <<>>
    /\ attempts = <<>>
    /\ raised = <<>>
    /\ last_call = NoCallYet
    /\ telegrams = <<>>
    /\ hass_data = {KNX2_MODULE_KEY}
    /\ pc = "running"
    /\ trace = StartSteps
    /\ connected = FALSE
    /\ connection_log = <<>>
    /\ refreshed = <<>>
    /\ exposures = <<>>
    /\ service_exposures = <<>>
    /\ \E store \in DeviceStores :
           /\ config_store = store
           /\ entities = EntitiesOfStore(store, get_entity_entries(store))
           /\ devices = DevicesOf(entities)
    /\ history = History(MaxLogSize, <<>>)
    /\ entry_state = EntryOf(hass_data)
    /\ platform_calls = <<>>
    /\ NoMessages

NextDevice == \E device_entry \in DeviceEntries : RemoveConfigEntryDevice(device_entry)

SpecDevice == InitDevice /\ [][NextDevice]_vars

\* The device of a stored configuration, "None" without one.
DeviceOfConfig(config) ==
    IF \E item \in config : item[1] = "device_info"
    THEN "id_" \o (CHOOSE item \in config : item[1] = "device_info")[2]
    ELSE "None"

\* C39: a removal asked for a device that has the identifier of the
\* interface device is answered False and changes neither the config store
\* nor the entities; for any other device it is answered True and the store
\* loses exactly the entities of that device, whose entity objects are
\* removed, while the others keep their configuration.
C39_InterfaceDeviceKept ==
    [][ (last_call'.call.service = "async_remove_config_entry_device")
            => LET device == last_call'.call.device
                   gone == {e \in DOMAIN config_store :
                                DeviceOfConfig(config_store[e]) = device.id}
               IN  IF "interface" \in device.identifiers
                   THEN /\ last_call'.result = "False"
                        /\ UNCHANGED <<config_store, entities, devices>>
                   ELSE /\ last_call'.result = "True"
                        /\ DOMAIN config_store' = DOMAIN config_store \ gone
                        /\ \A e \in DOMAIN config_store' :
                               config_store'[e] = config_store[e]
                        /\ \A i \in 1 .. Len(entities') :
                               IF \E e \in gone : entities[i].unique_id = "knx_es_" \o e
                               THEN ~entities'[i].in_devices
                               ELSE entities'[i] = entities[i] ]_vars

\* C39 witness: switch.a of device dev1 and switch.b of device dev2 were
\* stored; the removal of dev1 was answered True and has deleted switch.a
\* alone; its entity object is removed.
C39_Witness ==
    /\ last_call.call.service = "async_remove_config_entry_device"
    /\ last_call.call.device.id = "id_dev1"
    /\ last_call.result = "True"
    /\ DOMAIN config_store = {"switch.b"}
    /\ <<"device_info", "dev2">> \in config_store["switch.b"]
    /\ platform_calls = <<[op |-> "async_remove_entity", unique_id |-> "knx_es_switch.a"]>>
    /\ Len(entities) = 2
    /\ ~entities[1].in_devices /\ entities[2].in_devices
====
